---- MODULE Spec2Model ----
(***************************************************************************)
(* The cocoatly installation pipeline: install / uninstall / force         *)
(* uninstall / update transactions over one state file, one install root   *)
(* and one temp directory, run by independent command invocations; and the *)
(* archive codec's unpack.                                                 *)
(***************************************************************************)
EXTENDS Integers, Sequences, FiniteSets, TLC

VARIABLES
    disk,       \* the state file at config.storage.state_file
    mem,        \* mem[p]: the GlobalState held in memory by invocation p
    pc,         \* pc[p]: the stage invocation p is at
    op,         \* op[p]: "install" | "uninstall" | "force_uninstall" | "update"
    arg,        \* arg[p]: the invocation's arguments (target name, artifact)
    verify_checksums,   \* config.security.verify_checksums
    verify_signatures,  \* config.security.verify_signatures
    trusted_keys,       \* config.security.trusted_keys
    hooks,      \* config.hooks: the hook identifiers of each point, in declared order
    hookLog,    \* the hooks run so far, in the order they ran, each with what it
                \* found: whether the state file held a record of the package and
                \* what the install path held
    scope,      \* who calls: the invocations that may run and how many calls are
                \* made, the versions and urls the descriptors carry, the
                \* requested_by lists install is handed
    dirs,       \* dirs[<<name, versionstring>>]: install_root/name/version
    pkgDirs,    \* the names n whose directory install_root/n exists
    archives,   \* archives[<<name, versionstring>>]: temp_dir/name-version.tar.gz
    extract,    \* extract[p]: temp_dir/extract-<uuid> of p's transaction
    listed,     \* listed[p]: the file list install took from the install path
    orphans,    \* extract directories left behind by earlier transactions
    nOps,       \* invocations started so far
    startDisk,  \* history: the state file when p's current call began
    interfered, \* history: another invocation wrote the state file since then
    seen,       \* history: names installed by invocations that returned Ok meanwhile
    last,       \* history: the invocation that returned in the last step, if any:
                \* its operation, arguments, result and stage, the state and file list
                \* it held, the extract directory it left, the state file when its
                \* call began (before) and just before it returned (prev)
    uOut,       \* unpack: the paths decompress wrote
    uErr,       \* unpack: whether decompress returned an error
    uIn,        \* unpack: the input, [out |-> output_dir, entries |-> archive entry paths]
    netcfg,     \* downloader: NetworkConfig, [retry_attempts, max_concurrent_downloads]
    downloads,  \* downloader: the task list handed to download_multiple
    fetch,      \* downloader: fetch[i], the download(..) future of task i
    chunkStart, \* downloader: index of the first task of the chunk being run
    results,    \* downloader: the results vector of download_multiple
    dmReturn,   \* downloader: what download_multiple returned, if it has
    overtook,   \* history: a fetch finished before an earlier one of its chunk
    vIn,        \* verify: the record looked up and what the filesystem holds
    vOut,       \* verify: what verify_installation returned, if it has
    rOut,       \* verify: what repair_package returned, if it has
    clock,      \* what Utc::now() reads
    gs,         \* state store: a GlobalState in memory
    file,       \* state store: the file at the path it is loaded from and saved to
    fsize,      \* state store: the length std::fs::metadata reports for each file
    stLast,     \* history: the last call made on gs
    rtIn,       \* round trip: the source directory, what of it cannot be read, the output directory
    rtArchive,  \* round trip: the entries of the archive compress wrote
    rtOut,      \* round trip: the files under the output directory
    rtPc,       \* round trip: how far compress and decompress have come
    hIn,        \* crypto: the file, the descriptor and the key handed to a verify function
    hOut,       \* crypto: the function called and what it returned
    fsys,       \* fs: the directories and the regular files that exist
    fsLast,     \* fs: the FileSystemOps call made, what it returned, the file system before it
    dl,         \* download: the download(..) call: its attempts, the stream of the
                \* attempt being made, the bytes counted, what it returned
    dlFile      \* download: the bytes of the destination file

vars == <<disk, mem, pc, op, arg, verify_checksums, verify_signatures, trusted_keys,
          hooks, hookLog, scope, dirs, pkgDirs, archives,
          extract, listed, orphans, nOps, startDisk, interfered, seen, last,
          uOut, uErr, uIn,
          netcfg, downloads, fetch, chunkStart, results, dmReturn, overtook,
          vIn, vOut, rOut,
          clock, gs, file, fsize, stLast,
          rtIn, rtArchive, rtOut, rtPc,
          hIn, hOut,
          fsys, fsLast,
          dl, dlFile>>

\* config.security
security == <<verify_checksums, verify_signatures, trusted_keys>>

instVars == <<disk, mem, pc, op, arg, verify_checksums, verify_signatures,
              trusted_keys, hooks, hookLog, scope, dirs, pkgDirs, archives,
              extract, listed, orphans, nOps, startDisk, interfered, seen, last>>

unpackVars == <<uOut, uErr, uIn>>

dlVars == <<netcfg, downloads, fetch, chunkStart, results, dmReturn, overtook>>

verVars == <<vIn, vOut, rOut>>

stVars == <<clock, gs, file, fsize, stLast>>

rtVars == <<rtIn, rtArchive, rtOut, rtPc>>

hashVars == <<hIn, hOut>>

fsVars == <<fsys, fsLast>>

fetchVars == <<dl, dlFile>>

\* The variables of the library operations followed on their own.
libVars == <<unpackVars, dlVars, verVars, stVars, rtVars, hashVars, fsVars, fetchVars>>

(***************************************************************************)
(* Bounds and input domains.                                               *)
(***************************************************************************)
MaxOps == 2

MaxSingleOps == 3

MaxSignedOps == 2

MaxHookOps == 2

Procs == {"p1", "p2"}

Names == {"a", "b"}

\* Version: major (minor and patch behave alike) and the optional prerelease.
Versions == {[major |-> 1, prerelease |-> "none"],
             [major |-> 1, prerelease |-> "beta"],
             [major |-> 2, prerelease |-> "none"]}

\* The versions Version::parse yields: no prerelease.
PlainVersions == {v \in Versions : v.prerelease = "none"}

\* InstalledPackage.requested_by
Requesters == {{}, {"b"}}

FileNames == {"f", "g", "h"}

\* The archive bytes a download URL can serve.
Blobs == {"B1", "B2"}

\* The regular files packed in an archive.
BlobFiles(b) == IF b = "B1" THEN {"f"} ELSE IF b = "B2" THEN {"g"} ELSE {}

HashAlgorithms == {"blake3", "sha256", "sha512"}

\* HashComputer::compute and compute_stream: the lower-case hex digest, a black
\* box that is distinct for distinct contents and algorithms (a partially
\* written file has its own).
compute(data, algorithm) == <<algorithm, data>>

\* compute_file_hash: File::open fails where there is no file.
compute_file_hash(bytes, algorithm) ==
    IF bytes = "absent" THEN [kind |-> "IoError", digest |-> compute("", algorithm)]
    ELSE [kind |-> "Ok", digest |-> compute(bytes, algorithm)]

\* What the verify functions return.
HashResult(kind, expected, actual, signature_checked) ==
    [kind |-> kind, expected |-> expected, actual |-> actual,
     signature_checked |-> signature_checked]

\* The comparison of the digest with the expected string turned around.
HashesDiffer(computed, expected) == computed # expected

\* hash.rs 81 and 97: computed == expected
HashesEqual(computed, expected) == computed = expected

\* cocoatly_crypto::verify_hash
verify_hash(data, expected, algorithm) ==
    LET computed == compute(data, algorithm) IN
    IF HashesEqual(computed, expected)
    THEN HashResult("Ok", expected, computed, FALSE)
    ELSE HashResult("HashMismatch", expected, computed, FALSE)

\* cocoatly_crypto::verify_file_hash
verify_file_hash(bytes, expected, algorithm) ==
    LET computed == compute_file_hash(bytes, algorithm) IN
    IF computed.kind # "Ok"
    THEN HashResult("IoError", expected, computed.digest, FALSE)
    ELSE IF HashesEqual(computed.digest, expected)
    THEN HashResult("Ok", expected, computed.digest, FALSE)
    ELSE HashResult("HashMismatch", expected, computed.digest, FALSE)

\* PackageArtifact.signature: none, a string that is not hex, or the hex of a
\* signature made with a key over a message.
NoSignature == [present |-> FALSE, hex |-> FALSE, key |-> "none", msg |-> compute("", "sha256")]

Keys == {"k1", "k2"}

Signatures ==
    {NoSignature, [NoSignature EXCEPT !.present = TRUE]} \cup
    [present : {TRUE}, hex : {TRUE}, key : Keys,
     msg : {compute(d, "sha256") : d \in Blobs}]

\* verify_signature (Ed25519): the signature was made with the key's private
\* half over the message.
verify_signature(public_key, message, signature) ==
    signature.key = public_key /\ signature.msg = message

\* verify_artifact that verifies the signature before the digest.
verify_artifact_signature_first(bytes, artifact, public_key) ==
    LET file_hash == compute_file_hash(bytes, artifact.checksum_algorithm)
        h == verify_file_hash(bytes, artifact.checksum, artifact.checksum_algorithm) IN
    IF artifact.signature.present /\ public_key # "none" /\ ~artifact.signature.hex
    THEN HashResult("InvalidSignature", h.expected, h.actual, FALSE)
    ELSE IF /\ artifact.signature.present /\ public_key # "none"
            /\ ~verify_signature(public_key, file_hash.digest, artifact.signature)
    THEN HashResult("InvalidSignature", h.expected, h.actual, TRUE)
    ELSE [h EXCEPT !.signature_checked =
                       artifact.signature.present /\ public_key # "none"]

\* cocoatly_crypto::verify_artifact (verify.rs 15-39); public_key "none" is None
verify_artifact(bytes, artifact, public_key) ==
    LET h == verify_file_hash(bytes, artifact.checksum, artifact.checksum_algorithm) IN
    IF h.kind # "Ok" THEN h
    ELSE IF artifact.signature.present /\ public_key # "none"
    THEN IF ~artifact.signature.hex
         THEN HashResult("InvalidSignature", h.expected, h.actual, FALSE)
         ELSE LET file_hash == compute_file_hash(bytes, artifact.checksum_algorithm) IN
              IF file_hash.kind # "Ok"
              THEN HashResult("IoError", h.expected, h.actual, FALSE)
              ELSE IF verify_signature(public_key, file_hash.digest, artifact.signature)
              THEN HashResult("Ok", h.expected, h.actual, TRUE)
              ELSE HashResult("InvalidSignature", h.expected, h.actual, TRUE)
    ELSE h

\* The digests a descriptor carries: the digest of B1.
Digests == {compute("B1", "sha256")}

\* Version::to_string drops prerelease and build.
VersionString(v) == v.major

VersionStrings == {VersionString(v) : v \in Versions}

\* install_root.join(name).join(version.to_string())
InstallPath(n, v) == <<n, VersionString(v)>>

\* temp_dir.join(format!("{}-{}.tar.gz", name, version.to_string()))
ArchivePath(n, v) == <<n, VersionString(v)>>

Paths == Names \X VersionStrings

Artifacts == [name : Names, version : Versions, url : Blobs, checksum : Digests,
              signature : Signatures]

(***************************************************************************)
(* GlobalState and the state file.                                         *)
(***************************************************************************)
\* GlobalState::new
NewState ==
    [version |-> "1.0.0", last_updated |-> clock, installed_packages |-> <<>>,
     pending_operations |-> <<>>,
     metadata |-> [total_packages |-> 0, total_size_bytes |-> 0,
                   last_cleanup |-> {}, corrupted_packages |-> <<>>]]

\* GlobalState::has_package
has_package(s, n, v) ==
    /\ n \in DOMAIN s.installed_packages
    /\ s.installed_packages[n].version = v

\* GlobalState::get_package: defined on the names present
get_package(s, n) == s.installed_packages[n]

\* add_package that leaves metadata.total_packages as it was.
add_package_uncounted(s, pkg) ==
    [s EXCEPT !.installed_packages = (pkg.name :> pkg) @@ s.installed_packages,
              !.last_updated = clock]

\* GlobalState::add_package: HashMap::insert replaces the entry of the name
add_package(s, pkg) ==
    LET m == (pkg.name :> pkg) @@ s.installed_packages
    IN  [s EXCEPT !.installed_packages = m,
                  !.metadata.total_packages = Cardinality(DOMAIN m),
                  !.last_updated = clock]

\* GlobalState::remove_package
remove_package(s, n) ==
    IF n \in DOMAIN s.installed_packages
    THEN LET m == [k \in DOMAIN s.installed_packages \ {n} |-> s.installed_packages[k]]
         IN  [s EXCEPT !.installed_packages = m,
                       !.metadata.total_packages = Cardinality(DOMAIN m),
                       !.last_updated = clock]
    ELSE s

RECURSIVE SumOver(_, _)
\* iter().map(f).sum() over the members of S
SumOver(f, S) ==
    IF S = {} THEN 0
    ELSE LET x == CHOOSE y \in S : TRUE IN f[x] + SumOver(f, S \ {x})

\* The sum update_metadata takes: over the packages, the lengths of the files
\* of each that std::fs::metadata finds (sizes: length per file, 0 for none).
TotalSize(s, sizes) ==
    LET m == s.installed_packages
        PackageSize == [n \in DOMAIN m |-> SumOver(sizes, m[n].files)]
    IN  SumOver(PackageSize, DOMAIN m)

\* GlobalState::update_metadata
update_metadata(s, sizes) ==
    [s EXCEPT !.metadata.total_packages = Cardinality(DOMAIN s.installed_packages),
              !.metadata.total_size_bytes = TotalSize(s, sizes),
              !.last_updated = clock]

\* serde_json of Option<T>: null or the value.
OptionJson(o) == IF o = "none" THEN <<"null">> ELSE <<"value", o>>

OptionOf(j) == IF j[1] = "null" THEN "none" ELSE j[2]

\* serde_json of DateTime<Utc>: an RFC 3339 string to the nanosecond.
TimeJson(t) == <<"rfc3339", t>>

TimeOf(j) == j[2]

\* serde_json of InstalledPackage (derive Serialize, types.rs 103-113).
PackageJson(pkg) ==
    [name |-> pkg.name,
     version |-> [major |-> pkg.version.major,
                  prerelease |-> OptionJson(pkg.version.prerelease)],
     requested_by |-> pkg.requested_by, files |-> pkg.files,
     checksum |-> pkg.checksum]

PackageOf(j) ==
    [name |-> j.name,
     version |-> [major |-> j.version.major,
                  prerelease |-> OptionOf(j.version.prerelease)],
     requested_by |-> j.requested_by, files |-> j.files, checksum |-> j.checksum]

\* serde_json::to_string_pretty of a GlobalState (derive Serialize, state.rs
\* 8-23): an object per struct, the HashMap as an object keyed by the name.
to_string_pretty(s) ==
    [version |-> s.version,
     last_updated |-> TimeJson(s.last_updated),
     installed_packages |->
         [n \in DOMAIN s.installed_packages |-> PackageJson(s.installed_packages[n])],
     pending_operations |-> s.pending_operations,
     metadata |-> [total_packages |-> s.metadata.total_packages,
                   total_size_bytes |-> s.metadata.total_size_bytes,
                   last_cleanup |-> {TimeJson(t) : t \in s.metadata.last_cleanup},
                   corrupted_packages |-> s.metadata.corrupted_packages]]

\* from_str that fills metadata with its initial values instead of reading it.
from_str_fresh_metadata(j) ==
    [version |-> j.version,
     last_updated |-> TimeOf(j.last_updated),
     installed_packages |->
         [n \in DOMAIN j.installed_packages |-> PackageOf(j.installed_packages[n])],
     pending_operations |-> j.pending_operations,
     metadata |-> [total_packages |-> 0, total_size_bytes |-> 0,
                   last_cleanup |-> {}, corrupted_packages |-> <<>>]]

\* serde_json::from_str::<GlobalState> (derive Deserialize)
from_str(j) ==
    [version |-> j.version,
     last_updated |-> TimeOf(j.last_updated),
     installed_packages |->
         [n \in DOMAIN j.installed_packages |-> PackageOf(j.installed_packages[n])],
     pending_operations |-> j.pending_operations,
     metadata |-> [total_packages |-> j.metadata.total_packages,
                   total_size_bytes |-> j.metadata.total_size_bytes,
                   last_cleanup |-> {TimeOf(t) : t \in j.metadata.last_cleanup},
                   corrupted_packages |-> j.metadata.corrupted_packages]]

\* What the path holds: no file, content that does not parse, or a saved
\* document (text is read of a document only).
NoText == <<>>

Missing == [kind |-> "missing", text |-> NoText]

Truncated == [kind |-> "truncated", text |-> NoText]

\* save_to_file: the file written holds to_string_pretty of the state.
Document(s) == [kind |-> "doc", text |-> to_string_pretty(s)]

\* load_from_file that takes a missing file for a read error.
LoadOkExisting(d) == d.kind = "doc"

\* GlobalState::load_from_file: a missing file loads as a new state, a document
\* that does not parse is a serialization error (LoadOk is false and the call
\* returns no state: the value of load_from_file is then the empty store).
LoadOk(d) == d.kind # "truncated"

load_from_file(d) == IF d.kind = "doc" THEN from_str(d.text) ELSE NewState

\* What std::fs::write (create-and-truncate, then write_all) can leave at the path
\* when it returns an error: the old file (the open failed) or a cut-off one.
SaveErrorOutcomes(old, s) == {old, Truncated}

\* What it can leave when the process dies inside it.
SaveCrashOutcomes(old, s) == {old, Truncated, Document(s)}

(***************************************************************************)
(* Filesystem values and the invocations' bookkeeping.                     *)
(***************************************************************************)
NoDir == [exists |-> FALSE, files |-> {}]

Dir(fs) == [exists |-> TRUE, files |-> fs]

\* The value of a variable that holds nothing: the context and arguments of an
\* invocation that is not running, the inputs and outputs of a library that the
\* specification does not drive.
Unused == <<>>

\* Arguments that name a target only (uninstall takes no artifact).
NoArg == [target |-> "a",
          artifact |-> [name |-> "a", version |-> [major |-> 1, prerelease |-> "none"],
                        url |-> "B1", checksum |-> compute("B1", "sha256"),
                        signature |-> NoSignature],
          requested_by |-> {}]

\* The command line tools: invocations may overlap, versions are plain, install
\* is handed an empty requested_by (cli-bridge bin/install.rs 50-54).
CommandScope == [procs |-> Procs, ops |-> MaxOps, versions |-> PlainVersions,
                 urls |-> Blobs, requesters |-> {{}},
                 signatures |-> {NoSignature}]

\* One caller of the library at a time, with any version and requested_by, for
\* one call more.
SingleScope == [procs |-> {"p1"}, ops |-> MaxSingleOps, versions |-> Versions,
                urls |-> {"B1"}, requesters |-> Requesters,
                signatures |-> {NoSignature}]

\* The command line tools run one after the other.
SequentialScope == [procs |-> {"p1"}, ops |-> MaxOps, versions |-> PlainVersions,
                    urls |-> Blobs, requesters |-> {{}},
                    signatures |-> {NoSignature}]

\* One caller installing from descriptors that may carry a signature.
SignedScope == [procs |-> {"p1"}, ops |-> MaxSignedOps, versions |-> PlainVersions,
                urls |-> Blobs, requesters |-> {{}}, signatures |-> Signatures]

\* One caller at a time, hooks configured.
HookScope == [procs |-> {"p1"}, ops |-> MaxHookOps, versions |-> PlainVersions,
              urls |-> {"B1"}, requesters |-> {{}}, signatures |-> {NoSignature}]

NoLast == [status |-> "none", proc |-> "p1", op |-> "none", arg |-> Unused,
           error |-> "none", stage |-> "none", mem |-> Unused, files |-> {},
           extract |-> NoDir, before |-> Missing, prev |-> Missing,
           interfered |-> FALSE, seen |-> {}]

InFlight(p) == pc[p] # "idle"

\* Invocation p is at `stage`, and the result of the invocation that returned in
\* the last step, if any, has been taken by its caller.
At(p, stage) == pc[p] = stage /\ last.status = "none"

\* History of the load..save windows: p's window keeps or restarts (b, i); every
\* other running invocation notes a write of the state file (w).
Window(p, b, i, w) ==
    /\ startDisk' = [startDisk EXCEPT ![p] = b]
    /\ interfered' = [q \in Procs |->
                        IF q = p THEN i ELSE interfered[q] \/ (w /\ InFlight(q))]

\* Invocation p goes on to `stage` holding state m, extract directory ex and file
\* list l; w: this step wrote the state file.
Stay(p, stage, m, ex, l, w) ==
    /\ pc' = [pc EXCEPT ![p] = stage]
    /\ mem' = [mem EXCEPT ![p] = m]
    /\ extract' = [extract EXCEPT ![p] = ex]
    /\ listed' = [listed EXCEPT ![p] = l]
    /\ Window(p, startDisk[p], interfered[p], w)
    /\ last' = NoLast
    /\ UNCHANGED <<orphans, seen>>

\* The names an invocation that returned Ok has added to and removed from the store.
Added(o, a) == IF o \in {"install", "update"} THEN {a.artifact.name} ELSE {}

Removed(o, a) == IF o = "install" THEN {} ELSE {a.target}

\* Invocation p (operation o, arguments a) returns from `stage` with `status` and
\* `kind`: its context is dropped, an extract directory it left stays in temp_dir.
Return(p, o, a, status, kind, stage, m, ex, l, w) ==
    /\ pc' = [pc EXCEPT ![p] = "idle"]
    /\ op' = [op EXCEPT ![p] = "none"]
    /\ arg' = [arg EXCEPT ![p] = Unused]
    /\ mem' = [mem EXCEPT ![p] = Unused]
    /\ extract' = [extract EXCEPT ![p] = NoDir]
    /\ listed' = [listed EXCEPT ![p] = {}]
    /\ orphans' = IF ex.exists THEN orphans + 1 ELSE orphans
    /\ Window(p, Missing, FALSE, w)
    /\ seen' = [q \in Procs |->
                  IF q = p THEN {}
                  ELSE IF InFlight(q) /\ status = "ok"
                       THEN (seen[q] \ Removed(o, a)) \cup Added(o, a)
                  ELSE seen[q]]
    /\ last' = [status |-> status, proc |-> p, op |-> o, arg |-> a, error |-> kind,
                stage |-> stage, mem |-> m, files |-> l, extract |-> ex,
                before |-> startDisk[p], prev |-> disk,
                interfered |-> interfered[p], seen |-> seen[p]]

\* A step of p's transaction that fails: the error is returned to the caller.
Fail(p, kind, ex, l, w) ==
    Return(p, op[p], arg[p], "err", kind, pc[p], mem[p], ex, l, w)

\* A step of p's transaction that succeeds and goes on.
Goto(p, stage, ex, l) ==
    /\ Stay(p, stage, mem[p], ex, l, FALSE)
    /\ UNCHANGED <<op, arg>>

\* Config::default (config.rs 128, 135): signatures are to be verified, no key is
\* trusted.
DefaultSignatures ==
    /\ verify_signatures = TRUE
    /\ trusted_keys = {}

\* Config::default (config.rs 138-143): no hook is configured; none has run.
NoHooks == [pre_install |-> <<>>, post_install |-> <<>>,
            pre_uninstall |-> <<>>, post_uninstall |-> <<>>]

NoHooksRun ==
    /\ hooks = NoHooks
    /\ hookLog = <<>>

\* The hook lists a configuration can declare.
HookLists == {<<>>, <<"h1", "h2">>, <<"h2", "h1">>}

HookConfigs == [pre_install : {<<>>}, post_install : HookLists,
                pre_uninstall : HookLists, post_uninstall : HookLists]

\* No FileSystemOps call is followed.
FsIdle ==
    /\ fsys = Unused
    /\ fsLast = Unused

\* No download(..) call is followed.
FetchIdle ==
    /\ dl = Unused
    /\ dlFile = Unused

\* No invocation runs, nothing is installed, the temp directory is empty.
InstallerIdle ==
    /\ disk = Missing
    /\ mem = [p \in Procs |-> Unused]
    /\ pc = [p \in Procs |-> "idle"]
    /\ op = [p \in Procs |-> "none"]
    /\ arg = [p \in Procs |-> Unused]
    /\ dirs = [d \in Paths |-> NoDir]
    /\ pkgDirs = {}
    /\ archives = [d \in Paths |-> "absent"]
    /\ extract = [p \in Procs |-> NoDir]
    /\ listed = [p \in Procs |-> {}]
    /\ orphans = 0
    /\ nOps = 0
    /\ startDisk = [p \in Procs |-> Missing]
    /\ interfered = [p \in Procs |-> FALSE]
    /\ seen = [p \in Procs |-> {}]
    /\ last = NoLast

\* No archive is being unpacked.
UnpackIdle ==
    /\ uOut = {}
    /\ uErr = FALSE
    /\ uIn = Unused

\* download_multiple is not running.
NoReturn == [kind |-> "none", results |-> <<>>, error |-> [task |-> 0, attempt |-> 0]]

DownloadIdle ==
    /\ netcfg = Unused
    /\ downloads = <<>>
    /\ fetch = <<>>
    /\ chunkStart = 1
    /\ results = <<>>
    /\ dmReturn = Unused
    /\ overtook = FALSE

\* verify_installation has not been called.
NoVerification == [kind |-> "none", valid |-> FALSE, missing_files |-> {},
                   corrupted_files |-> {}]

VerifyIdle ==
    /\ vIn = Unused
    /\ vOut = Unused
    /\ rOut = "none"

\* No verify function has been called.
NoHashCall == [fn |-> "none", result |-> HashResult("none", compute("", "sha256"),
                                                    compute("", "sha256"), FALSE)]

HashIdle ==
    /\ hIn = Unused
    /\ hOut = Unused

\* Nothing is being compressed.
RoundTripIdle ==
    /\ rtIn = Unused
    /\ rtArchive = {}
    /\ rtOut = {}
    /\ rtPc = "idle"

\* No call has been made on a GlobalState of its own.
NoCall == [op |-> "none", after |-> "none", name |-> "a", present |-> FALSE,
           ok |-> TRUE, n |-> 0]

StateIdle ==
    /\ clock = 0
    /\ gs = Unused
    /\ file = Unused
    /\ fsize = Unused
    /\ stLast = Unused

Init ==
    /\ StateIdle
    /\ InstallerIdle
    /\ FsIdle
    /\ FetchIdle
    /\ verify_checksums \in BOOLEAN
    /\ DefaultSignatures
    /\ NoHooksRun
    /\ scope = CommandScope
    /\ UnpackIdle
    /\ DownloadIdle
    /\ VerifyIdle
    /\ RoundTripIdle
    /\ HashIdle

InitSingle ==
    /\ StateIdle
    /\ InstallerIdle
    /\ FsIdle
    /\ FetchIdle
    /\ verify_checksums \in BOOLEAN
    /\ DefaultSignatures
    /\ NoHooksRun
    /\ scope = SingleScope
    /\ UnpackIdle
    /\ DownloadIdle
    /\ VerifyIdle
    /\ RoundTripIdle
    /\ HashIdle

InitSequential ==
    /\ StateIdle
    /\ InstallerIdle
    /\ FsIdle
    /\ FetchIdle
    /\ verify_checksums \in BOOLEAN
    /\ DefaultSignatures
    /\ NoHooksRun
    /\ scope = SequentialScope
    /\ UnpackIdle
    /\ DownloadIdle
    /\ VerifyIdle
    /\ RoundTripIdle
    /\ HashIdle

\* Any security configuration, descriptors with and without a signature.
InitSigned ==
    /\ StateIdle
    /\ InstallerIdle
    /\ FsIdle
    /\ FetchIdle
    /\ verify_checksums \in BOOLEAN
    /\ verify_signatures \in BOOLEAN
    /\ trusted_keys \in SUBSET Keys
    /\ NoHooksRun
    /\ scope = SignedScope
    /\ UnpackIdle
    /\ DownloadIdle
    /\ VerifyIdle
    /\ RoundTripIdle
    /\ HashIdle

\* Any hooks configured, none run yet.
InitHooks ==
    /\ StateIdle
    /\ InstallerIdle
    /\ FsIdle
    /\ FetchIdle
    /\ verify_checksums = TRUE
    /\ DefaultSignatures
    /\ hooks \in HookConfigs
    /\ hookLog = <<>>
    /\ scope = HookScope
    /\ UnpackIdle
    /\ DownloadIdle
    /\ VerifyIdle
    /\ RoundTripIdle
    /\ HashIdle

(***************************************************************************)
(* Entry points: a command invocation loads the state file and calls the   *)
(* operation (cli-bridge run), or a caller hands the operation a state     *)
(* loaded from the state file.                                             *)
(***************************************************************************)
\* An invocation can start when p runs none; the invocations are interchangeable,
\* so the first one ever started is named p1.
CanStart(p) ==
    /\ p \in scope.procs
    /\ At(p, "idle")
    /\ nOps < scope.ops
    /\ p = "p1" \/ nOps > 0

\* GlobalState::load_from_file at the head of run(), then the operation's own
\* first checks: `refuse` is the error they return on the loaded state ("none":
\* go on to `stage`). A document that does not parse ends the invocation at once.
Enter(p, o, a, loaded, refuse, refusedAt, stage) ==
    /\ nOps' = nOps + 1
    /\ IF ~LoadOk(disk)
       THEN Return(p, o, a, "err", "SerializationError", "load", NewState, NoDir, {}, FALSE)
       ELSE IF refuse # "none"
       THEN Return(p, o, a, "err", refuse, refusedAt, loaded, NoDir, {}, FALSE)
       ELSE /\ pc' = [pc EXCEPT ![p] = stage]
            /\ op' = [op EXCEPT ![p] = o]
            /\ arg' = [arg EXCEPT ![p] = a]
            /\ mem' = [mem EXCEPT ![p] = loaded]
            /\ Window(p, disk, FALSE, FALSE)
            /\ last' = NoLast
            /\ UNCHANGED <<extract, listed, orphans, seen>>
    /\ UNCHANGED <<disk, security, hooks, hookLog, scope, dirs, pkgDirs, archives, libVars>>

\* cocoatly-install: run() loads the state, builds the context, calls install_package.
StartInstall(p) ==
    LET loaded == load_from_file(disk) IN
    /\ CanStart(p)
    /\ \E a \in Artifacts, r \in scope.requesters :
         /\ a.version \in scope.versions
         /\ a.url \in scope.urls
         /\ a.signature \in scope.signatures
         /\ Enter(p, "install", [target |-> a.name, artifact |-> a, requested_by |-> r],
                  loaded, "none", "none", "check")

(***************************************************************************)
(* PackageInstaller::install, stage by stage.                              *)
(***************************************************************************)
\* Variant: the already-installed check is missing.
InstallCheckSkipped(p) ==
    /\ At(p, "check")
    /\ Goto(p, "download", extract[p], listed[p])
    /\ UNCHANGED <<disk, security, hooks, hookLog, scope, dirs, pkgDirs, archives, nOps, libVars>>

\* install.rs 61-65: reject a name+version the loaded state already records.
InstallCheck(p) ==
    /\ At(p, "check")
    /\ IF has_package(mem[p], arg[p].artifact.name, arg[p].artifact.version)
       THEN Fail(p, "AlreadyInstalled", extract[p], listed[p], FALSE)
       ELSE Goto(p, "download", extract[p], listed[p])
    /\ UNCHANGED <<disk, security, hooks, hookLog, scope, dirs, pkgDirs, archives, nOps, libVars>>

\* download_artifact: Downloader::download to temp_dir/<name>-<version>.tar.gz.
\* It succeeds with the served bytes in the file, or returns DownloadFailed with
\* the destination untouched (no response) or created and cut off (stream error).
Download(p) ==
    LET a == arg[p].artifact
        dest == ArchivePath(a.name, a.version) IN
    /\ At(p, "download")
    /\ \/ /\ archives' = [archives EXCEPT ![dest] = a.url]
          /\ Goto(p, "verify", extract[p], listed[p])
       \/ /\ UNCHANGED archives
          /\ Fail(p, "DownloadFailed", extract[p], listed[p], FALSE)
       \/ /\ archives' = [archives EXCEPT ![dest] = "partial"]
          /\ Fail(p, "DownloadFailed", extract[p], listed[p], FALSE)
    /\ UNCHANGED <<disk, security, hooks, hookLog, scope, dirs, pkgDirs, nOps, libVars>>

\* The descriptor the installer is handed: its digest is a SHA-256.
Descriptor(a) ==
    [checksum |-> a.checksum, checksum_algorithm |-> "sha256", signature |-> a.signature]

\* PackageInstaller::verify_artifact: skipped when verify_checksums is off;
\* verify_artifact is called without a public key, its error is returned as it
\* is, the archive stays where it was downloaded.
Verify(p) ==
    LET a == arg[p].artifact
        bytes == archives[ArchivePath(a.name, a.version)]
        verified == verify_artifact(bytes, Descriptor(a), "none") IN
    /\ At(p, "verify")
    /\ IF ~verify_checksums THEN Goto(p, "extract", extract[p], listed[p])
       ELSE IF verified.kind = "Ok" THEN Goto(p, "extract", extract[p], listed[p])
       ELSE Fail(p, verified.kind, extract[p], listed[p], FALSE)
    /\ UNCHANGED <<disk, security, hooks, hookLog, scope, dirs, pkgDirs, archives, nOps, libVars>>

\* extract_and_install, first half: a fresh temp_dir/extract-<uuid>, then
\* extract_archive into it. An error leaves what was unpacked so far.
Extract(p) ==
    LET a == arg[p].artifact
        bytes == archives[ArchivePath(a.name, a.version)] IN
    /\ At(p, "extract")
    /\ \/ Fail(p, "IoError", NoDir, listed[p], FALSE)       \* ensure_directory failed
       \/ /\ bytes \in Blobs
          /\ Goto(p, "copy", Dir(BlobFiles(bytes)), listed[p])
       \/ \E part \in SUBSET BlobFiles(bytes) :
             Fail(p, "IoError", Dir(part), listed[p], FALSE)
    /\ UNCHANGED <<disk, security, hooks, hookLog, scope, dirs, pkgDirs, archives, nOps, libVars>>

\* extract_and_install, second half: ensure the install path, copy the unpacked
\* tree over it file by file, remove the extract directory. Every error is
\* returned as it is: what was created or copied so far stays.
Copy(p) ==
    LET a == arg[p].artifact
        path == InstallPath(a.name, a.version)
        src == extract[p].files IN
    /\ At(p, "copy")
    /\ \/ /\ UNCHANGED <<dirs, pkgDirs>>                    \* ensure_directory failed
          /\ Fail(p, "IoError", extract[p], listed[p], FALSE)
       \/ \E part \in SUBSET src :                           \* copy_directory failed
          /\ dirs' = [dirs EXCEPT ![path] = Dir(dirs[path].files \cup part)]
          /\ pkgDirs' = pkgDirs \cup {a.name}
          /\ Fail(p, "IoError", extract[p], listed[p], FALSE)
       \/ /\ dirs' = [dirs EXCEPT ![path] = Dir(dirs[path].files \cup src)]
          /\ pkgDirs' = pkgDirs \cup {a.name}
          /\ \/ Goto(p, "cleanup", NoDir, listed[p])
             \/ Fail(p, "IoError", extract[p], listed[p], FALSE)   \* remove_directory failed
    /\ UNCHANGED <<disk, security, hooks, hookLog, scope, archives, nOps, libVars>>

\* Variant: the record is added and the state saved before cleanup_temp_files,
\* so a failing remove_file returns the error after the state file was written.
CleanupAfterSave(p) ==
    LET a == arg[p].artifact
        path == InstallPath(a.name, a.version)
        arch == ArchivePath(a.name, a.version)
        s == add_package(mem[p], [name |-> a.name, version |-> a.version,
                                  requested_by |-> arg[p].requested_by,
                                  files |-> dirs[path].files, checksum |-> a.checksum]) IN
    /\ At(p, "cleanup")
    /\ \/ /\ ~dirs[path].exists
          /\ UNCHANGED <<archives, disk>>
          /\ Fail(p, "IoError", extract[p], listed[p], FALSE)
       \/ /\ dirs[path].exists
          /\ archives' = [archives EXCEPT ![arch] = "absent"]
          /\ UNCHANGED disk
          /\ Goto(p, "commit", extract[p], dirs[path].files)
       \/ /\ dirs[path].exists
          /\ archives[arch] # "absent"
          /\ UNCHANGED archives
          /\ disk' = Document(s)
          /\ Fail(p, "IoError", extract[p], dirs[path].files, TRUE)
    /\ UNCHANGED <<security, hooks, hookLog, scope, dirs, pkgDirs, nOps, libVars>>

\* install.rs 73-89: the file list is read from the install path, the record is
\* built, then cleanup_temp_files removes the archive if it is there.
Cleanup(p) ==
    LET a == arg[p].artifact
        path == InstallPath(a.name, a.version)
        arch == ArchivePath(a.name, a.version) IN
    /\ At(p, "cleanup")
    /\ \/ /\ ~dirs[path].exists                              \* list_files: no such directory
          /\ UNCHANGED archives
          /\ Fail(p, "IoError", extract[p], listed[p], FALSE)
       \/ /\ dirs[path].exists
          /\ archives' = [archives EXCEPT ![arch] = "absent"]
          /\ Goto(p, "commit", extract[p], dirs[path].files)
       \/ /\ dirs[path].exists
          /\ archives[arch] # "absent"                       \* remove_file failed
          /\ UNCHANGED archives
          /\ Fail(p, "IoError", extract[p], dirs[path].files, FALSE)
    /\ UNCHANGED <<disk, security, hooks, hookLog, scope, dirs, pkgDirs, nOps, libVars>>

\* run_post_install_hooks, run_pre_uninstall_hooks, run_post_uninstall_hooks:
\* the hooks of the point are gone through in declared order (each is logged);
\* recorded and dir are what a hook run there finds in the state file and at the
\* install path. The log with them appended.
RunHooks(point, list, recorded, dir) ==
    hookLog \o [i \in 1..Len(list) |->
                  [point |-> point, hook |-> list[i], recorded |-> recorded, dir |-> dir]]

\* Variant: the post hooks run before save_to_file.
HooksBeforeSave(old, new) == old

\* install.rs 92-94 and uninstall.rs 33-35: the post hooks run after
\* save_to_file has returned Ok; the state file they find is the new one.
HooksAfterSave(old, new) == new

InstalledPackage(p) ==
    [name |-> arg[p].artifact.name, version |-> arg[p].artifact.version,
     requested_by |-> arg[p].requested_by,
     files |-> listed[p], checksum |-> arg[p].artifact.checksum]

\* install.rs 91-102: add_package, save_to_file, the post-install hooks (each
\* is logged, they return Ok), Ok. Inside update the install context is dropped and the updater, still
\* holding the state it was given, then reloads it.
Commit(p) ==
    LET s == add_package(mem[p], InstalledPackage(p)) IN
    /\ At(p, "commit")
    /\ \/ /\ disk' = Document(s)
          /\ hookLog' = RunHooks("post_install", hooks.post_install,
                                 has_package(load_from_file(HooksAfterSave(disk, Document(s))),
                                             arg[p].artifact.name, arg[p].artifact.version),
                                 dirs[InstallPath(arg[p].artifact.name,
                                                  arg[p].artifact.version)].exists)
          /\ IF op[p] = "update"
             THEN Stay(p, "reload", mem[p], extract[p], listed[p], TRUE) /\ UNCHANGED <<op, arg>>
             ELSE Return(p, op[p], arg[p], "ok", "none", "commit", s, extract[p], listed[p], TRUE)
       \/ \E d \in SaveErrorOutcomes(disk, s) :
          /\ disk' = d
          /\ UNCHANGED hookLog
          /\ Return(p, op[p], arg[p], "err", "IoError", "commit", s, extract[p], listed[p], d # disk)
    /\ UNCHANGED <<security, hooks, scope, dirs, pkgDirs, archives, nOps, libVars>>

(***************************************************************************)
(* PackageUninstaller::uninstall and force_uninstall.                      *)
(***************************************************************************)
\* Variant: the lookup never fails.
LookupAny(s, n) == "none"

\* uninstall.rs 23-26: PackageNotFound when the state holds no record of the name.
Lookup(s, n) == IF n \in DOMAIN s.installed_packages THEN "none" ELSE "PackageNotFound"

\* cocoatly-uninstall: run() loads the state and calls uninstall_package.
StartUninstall(p) ==
    LET loaded == load_from_file(disk) IN
    /\ CanStart(p)
    /\ \E n \in Names :
         Enter(p, "uninstall", [NoArg EXCEPT !.target = n], loaded,
               Lookup(loaded, n), "lookup", "remove")

\* The directories with the version directory at path removed.
WithoutDir(path) == [dirs EXCEPT ![path] = NoDir]

\* Variant: the package directory is taken for empty whatever it holds.
NoFilesUnderAny(ds, n) == TRUE

\* FileSystemOps::list_files(install_root/name) finds no regular file.
NoFilesUnder(ds, n) == \A d \in Paths : d[1] = n => ds[d].files = {}

\* remove_package_files: remove the record's install path if it exists, then the
\* package directory install_root/name (with all it holds) if no regular file is
\* left under it. The pre-uninstall hooks run before it (uninstall.rs 28-30).
RemoveFiles(p) ==
    LET n == arg[p].target
        path == InstallPath(n, get_package(mem[p], n).version)
        after == IF dirs[path].exists THEN WithoutDir(path) ELSE dirs IN
    /\ At(p, "remove")
    /\ hookLog' = RunHooks("pre_uninstall", hooks.pre_uninstall,
                           n \in DOMAIN load_from_file(disk).installed_packages,
                           dirs[path].exists)
    /\ \/ /\ dirs[path].exists                               \* remove_directory failed
          /\ \E part \in SUBSET dirs[path].files :
                dirs' = [dirs EXCEPT ![path] = Dir(part)]
          /\ UNCHANGED pkgDirs
          /\ Fail(p, "IoError", extract[p], listed[p], FALSE)
       \/ /\ n \in pkgDirs /\ NoFilesUnder(after, n)
          /\ dirs' = [d \in Paths |-> IF d[1] = n THEN NoDir ELSE after[d]]
          /\ pkgDirs' = pkgDirs \ {n}
          /\ Goto(p, "uncommit", extract[p], listed[p])
       \/ /\ n \in pkgDirs /\ NoFilesUnder(after, n)         \* removing install_root/name failed
          /\ dirs' = after
          /\ UNCHANGED pkgDirs
          /\ Fail(p, "IoError", extract[p], listed[p], FALSE)
       \/ /\ ~(n \in pkgDirs /\ NoFilesUnder(after, n))
          /\ dirs' = after
          /\ UNCHANGED pkgDirs
          /\ Goto(p, "uncommit", extract[p], listed[p])
    /\ UNCHANGED <<disk, security, hooks, scope, archives, nOps, libVars>>

\* uninstall.rs 32-39 and 82-83: remove_package, save_to_file, in uninstall the
\* post-uninstall hooks (each is logged, they return Ok), Ok. update runs it on a clone of its state (update.rs
\* 48-52) and goes on to install_package with the state it loaded.
UninstallCommit(p) ==
    LET s == remove_package(mem[p], arg[p].target) IN
    /\ At(p, "uncommit")
    /\ \/ /\ disk' = Document(s)
          /\ IF op[p] = "force_uninstall"
             THEN UNCHANGED hookLog
             ELSE hookLog' =
                    RunHooks("post_uninstall", hooks.post_uninstall,
                             arg[p].target \in DOMAIN load_from_file(
                                 HooksAfterSave(disk, Document(s))).installed_packages,
                             dirs[InstallPath(arg[p].target,
                                              get_package(mem[p], arg[p].target).version)].exists)
          /\ IF op[p] = "update"
             THEN /\ pc' = [pc EXCEPT ![p] = "check"]
                  /\ Window(p, disk', FALSE, TRUE)
                  /\ last' = NoLast
                  /\ UNCHANGED <<op, arg, mem, extract, listed, orphans, seen>>
             ELSE Return(p, op[p], arg[p], "ok", "none", "uncommit", s, extract[p], listed[p], TRUE)
       \/ \E d \in SaveErrorOutcomes(disk, s) :
          /\ disk' = d
          /\ UNCHANGED hookLog
          /\ Return(p, op[p], arg[p], "err", "IoError", "uncommit", s, extract[p], listed[p], d # disk)
    /\ UNCHANGED <<security, hooks, scope, dirs, pkgDirs, archives, nOps, libVars>>

\* A caller of force_uninstall with the state loaded from the state file.
StartForceUninstall(p) ==
    LET loaded == load_from_file(disk) IN
    /\ CanStart(p)
    /\ \E n \in Names :
         Enter(p, "force_uninstall", [NoArg EXCEPT !.target = n], loaded,
               "none", "none", "force_remove")

\* force_uninstall, uninstall.rs 72-78: remove the record's install path if there
\* is a record and the path exists; an error of the removal is returned.
ForceRemove(p) ==
    LET n == arg[p].target
        has == n \in DOMAIN mem[p].installed_packages
        path == InstallPath(n, get_package(mem[p], n).version) IN
    /\ At(p, "force_remove")
    /\ \/ /\ ~has
          /\ UNCHANGED dirs
          /\ Goto(p, "uncommit", extract[p], listed[p])
       \/ /\ has
          /\ dirs' = [dirs EXCEPT ![path] = NoDir]
          /\ Goto(p, "uncommit", extract[p], listed[p])
       \/ /\ has /\ dirs[path].exists
          /\ \E part \in SUBSET dirs[path].files :
                dirs' = [dirs EXCEPT ![path] = Dir(part)]
          /\ Fail(p, "IoError", extract[p], listed[p], FALSE)
    /\ UNCHANGED <<disk, security, hooks, hookLog, scope, pkgDirs, archives, nOps, libVars>>

(***************************************************************************)
(* PackageUpdater::update.                                                 *)
(***************************************************************************)
PreRank(v) == IF v.prerelease = "none" THEN 0 ELSE 1

\* Version's derived Ord: field by field, None before Some.
VersionGE(v, w) ==
    \/ v.major > w.major
    \/ v.major = w.major /\ PreRank(v) >= PreRank(w)

\* update.rs 31-44: PackageNotFound without a record, InstallationFailed when the
\* installed version is not older than the artifact's.
UpdateRefusal(s, n, a) ==
    IF n \notin DOMAIN s.installed_packages THEN "PackageNotFound"
    ELSE IF VersionGE(get_package(s, n).version, a.version) THEN "UpToDate"
    ELSE "none"

\* update_package on a state loaded from the state file; after the checks it
\* calls uninstall_package.
StartUpdate(p) ==
    LET loaded == load_from_file(disk) IN
    /\ CanStart(p)
    /\ \E n \in Names, a \in Artifacts :
         /\ a.version \in scope.versions
         /\ a.url \in scope.urls
         /\ a.signature \in scope.signatures
         /\ Enter(p, "update",
                  [target |-> n, artifact |-> a,
                   requested_by |-> IF n \in DOMAIN loaded.installed_packages
                                    THEN get_package(loaded, n).requested_by
                                    ELSE {}],
                  loaded, UpdateRefusal(loaded, n, a), "compare", "remove")

\* update.rs 57: the updater reloads its state after install_package returned Ok.
Reload(p) ==
    /\ At(p, "reload")
    /\ IF LoadOk(disk)
       THEN Return(p, op[p], arg[p], "ok", "none", "reload", load_from_file(disk),
                   extract[p], listed[p], FALSE)
       ELSE Fail(p, "SerializationError", extract[p], listed[p], FALSE)
    /\ UNCHANGED <<disk, security, hooks, hookLog, scope, dirs, pkgDirs, archives, nOps, libVars>>

(***************************************************************************)
(* The process dies inside save_to_file.                                   *)
(***************************************************************************)
Crash(p) ==
    /\ At(p, "commit") \/ At(p, "uncommit")
    /\ LET s == IF pc[p] = "commit" THEN add_package(mem[p], InstalledPackage(p))
                ELSE remove_package(mem[p], arg[p].target)
       IN  \E d \in SaveCrashOutcomes(disk, s) :
             /\ disk' = d
             /\ Return(p, op[p], arg[p], "crashed", "none", pc[p], s, extract[p],
                       listed[p], d # disk)
    /\ UNCHANGED <<security, hooks, hookLog, scope, dirs, pkgDirs, archives, nOps, libVars>>

\* The caller takes the result of the invocation that has just returned.
TakeResult ==
    /\ last.status # "none"
    /\ last' = NoLast
    /\ UNCHANGED <<disk, mem, pc, op, arg, security, hooks, hookLog, scope, dirs, pkgDirs,
                   archives, extract, listed, orphans, nOps, startDisk, interfered,
                   seen, libVars>>

Next ==
    \/ TakeResult
    \/ \E p \in Procs :
        \/ StartInstall(p)
        \/ InstallCheck(p)
        \/ Download(p)
        \/ Verify(p)
        \/ Extract(p)
        \/ Copy(p)
        \/ Cleanup(p)
        \/ Commit(p)
        \/ StartUninstall(p)
        \/ RemoveFiles(p)
        \/ UninstallCommit(p)
        \/ StartForceUninstall(p)
        \/ ForceRemove(p)
        \/ StartUpdate(p)
        \/ Reload(p)
        \/ Crash(p)

Spec == Init /\ [][Next]_vars

SpecSigned == InitSigned /\ [][Next]_vars

SpecHooks == InitHooks /\ [][Next]_vars

\* The same operations called by one caller at a time.
SpecSingle == InitSingle /\ [][Next]_vars

SpecSequential == InitSequential /\ [][Next]_vars

(***************************************************************************)
(* TarGzCompressor::decompress (extract_archive), entry by entry.          *)
(***************************************************************************)
MaxEntries == 2

MaxDepth == 2

\* Path components: the parent reference and an ordinary name.
Components == {"..", "e"}

RECURSIVE SeqsUpTo(_, _)
\* The sequences over S of length 1..n.
SeqsUpTo(S, n) ==
    IF n = 0 THEN {}
    ELSE {<<x>> : x \in S} \cup
         {Append(q, x) : q \in SeqsUpTo(S, n - 1), x \in S}

\* The paths an archive entry can carry: relative or absolute.
EntryPaths == [abs : BOOLEAN, comps : SeqsUpTo(Components, MaxDepth)]

\* The output directories: absolute paths.
OutDirs == {[abs |-> TRUE, comps |-> <<"out">>], [abs |-> TRUE, comps |-> <<"out", "sub">>]}

\* Path::join: an absolute argument replaces the base.
Join(base, path) ==
    IF path.abs THEN path
    ELSE [abs |-> base.abs, comps |-> base.comps \o path.comps]

RECURSIVE Resolve(_, _)
\* The location the filesystem resolves a component list to: ".." steps to the
\* parent, and stays at the root.
Resolve(done, rest) ==
    IF rest = <<>> THEN done
    ELSE IF Head(rest) = ".."
         THEN Resolve(IF done = <<>> THEN <<>> ELSE SubSeq(done, 1, Len(done) - 1), Tail(rest))
    ELSE Resolve(Append(done, Head(rest)), Tail(rest))

\* lib.rs 62-68: output_path.join(&*path), create_dir_all(parent), entry.unpack:
\* the location the entry's file is written to.
EntryTarget(out, path) == Resolve(<<>>, Join(out, path).comps)

\* location lies in output_dir or below it
Inside(out, loc) ==
    LET root == Resolve(<<>>, out.comps) IN
    /\ Len(loc) >= Len(root)
    /\ SubSeq(loc, 1, Len(root)) = root

UnpackInputs ==
    [out : OutDirs,
     entries : {<<>>} \cup SeqsUpTo(EntryPaths, MaxEntries)]

InitUnpack ==
    /\ StateIdle
    /\ InstallerIdle
    /\ FsIdle
    /\ FetchIdle
    /\ verify_checksums = TRUE
    /\ DefaultSignatures
    /\ NoHooksRun
    /\ scope = CommandScope
    /\ uOut = {}
    /\ uErr = FALSE
    /\ uIn \in UnpackInputs
    /\ DownloadIdle
    /\ VerifyIdle
    /\ RoundTripIdle
    /\ HashIdle

\* One turn of the loop over archive.entries(): the entry is unpacked to the
\* joined path and the path is pushed to extracted_files.
UnpackEntry ==
    /\ uIn.entries # <<>>
    /\ ~uErr
    /\ uOut' = uOut \cup {EntryTarget(uIn.out, Head(uIn.entries))}
    /\ uIn' = [uIn EXCEPT !.entries = Tail(@)]
    /\ UNCHANGED uErr
    /\ UNCHANGED <<instVars, fsVars, fetchVars, dlVars, verVars, stVars, rtVars, hashVars>>

\* An entry that cannot be read or written: `?` returns the error.
UnpackIoError ==
    /\ uIn.entries # <<>>
    /\ ~uErr
    /\ uErr' = TRUE
    /\ UNCHANGED <<uOut, uIn>>
    /\ UNCHANGED <<instVars, fsVars, fetchVars, dlVars, verVars, stVars, rtVars, hashVars>>

NextUnpack == UnpackEntry \/ UnpackIoError

SpecUnpack == InitUnpack /\ [][NextUnpack]_vars

(***************************************************************************)
(* Downloader::download and download_multiple.                             *)
(***************************************************************************)
MaxTasks == 3

MaxAttempts == 2

MaxConcurrent == 2

\* DownloadTask: the i-th task of a list has its own url and destination.
Task(i) == [url |-> <<"url", i>>, destination |-> <<"dest", i>>]

TaskLists == {[i \in 1..n |-> Task(i)] : n \in 0..MaxTasks}

\* NetworkConfig as deserialized: both fields are unsigned, neither is checked.
NetworkConfigs == [retry_attempts : 0..MaxAttempts,
                   max_concurrent_downloads : 0..MaxConcurrent]

\* A download(..) future that has not been polled.
NewFetch == [st |-> "idle", attempts |-> 0, delays |-> 0, log |-> <<>>, error |-> 0]

InitDownload ==
    /\ StateIdle
    /\ InstallerIdle
    /\ FsIdle
    /\ FetchIdle
    /\ verify_checksums = TRUE
    /\ DefaultSignatures
    /\ NoHooksRun
    /\ scope = CommandScope
    /\ UnpackIdle
    /\ VerifyIdle
    /\ RoundTripIdle
    /\ HashIdle
    /\ netcfg \in NetworkConfigs
    /\ downloads \in TaskLists
    /\ fetch = [i \in 1..Len(downloads) |-> NewFetch]
    /\ chunkStart = 1
    /\ results = <<>>
    /\ dmReturn = [NoReturn EXCEPT !.kind = "run"]
    /\ overtook = FALSE

Running == dmReturn.kind = "run"

\* Variant: chunks one task longer than the limit.
InChunkWide(i) ==
    /\ chunkStart <= i
    /\ i < chunkStart + netcfg.max_concurrent_downloads + 1

\* downloads.chunks(max_concurrent): task i is in the chunk being run.
InChunk(i) ==
    /\ chunkStart <= i
    /\ i < chunkStart + netcfg.max_concurrent_downloads

Chunk == {i \in 1..Len(downloads) : InChunk(i)}

Finished(i) == fetch[i].st \in {"ok", "err"}

\* Variant: join_all returns as soon as one future is ready.
ChunkAnyDone == \E i \in Chunk : Finished(i)

\* join_all(futures).await: every future of the chunk is ready.
ChunkDone == \A i \in Chunk : Finished(i)

\* Variant: the retry test counts one attempt too many.
ShouldRetryInclusive(attempts, max_attempts) == attempts <= max_attempts

\* lib.rs 55: Err(e) if attempts < max_attempts
ShouldRetry(attempts, max_attempts) == attempts < max_attempts

\* Variant: the error of the last failed task of the chunk.
LastFailed(S) == CHOOSE i \in S : \A j \in S : j <= i

\* lib.rs 132-134: results are taken in the order of the chunk; the first Err
\* leaves through `?`.
FirstFailed(S) == CHOOSE i \in S : \A j \in S : i <= j

\* DownloadResult of task i (the sizes are left out).
DownloadResult(i) == [url |-> downloads[i].url, destination |-> downloads[i].destination]

\* Variant: the results of a chunk pushed last to first.
ChunkResultsReversed(lo, hi) == [k \in 1..(hi - lo + 1) |-> DownloadResult(hi - k + 1)]

\* The results join_all yields for the tasks lo..hi, in the order of the futures.
ChunkResults(lo, hi) == [k \in 1..(hi - lo + 1) |-> DownloadResult(lo + k - 1)]

\* A fetch of the chunk becomes ready while an earlier one is not.
Overtakes(i) == \E j \in Chunk : j < i /\ ~Finished(j)

\* chunks(0) panics: "chunk size must be non-zero".
ChunksPanic ==
    /\ Running
    /\ netcfg.max_concurrent_downloads = 0
    /\ dmReturn' = [dmReturn EXCEPT !.kind = "panic"]
    /\ UNCHANGED <<netcfg, downloads, fetch, chunkStart, results, overtook>>
    /\ UNCHANGED <<instVars, fsVars, fetchVars, unpackVars, verVars, stVars, rtVars, hashVars>>

\* join_all polls the future of task i for the first time: download enters its
\* loop, attempts += 1, download_internal is called.
FetchStart(i) ==
    /\ Running
    /\ netcfg.max_concurrent_downloads > 0
    /\ i \in Chunk
    /\ fetch[i].st = "idle"
    /\ fetch' = [fetch EXCEPT ![i].st = "running", ![i].attempts = 1]
    /\ UNCHANGED <<netcfg, downloads, chunkStart, results, dmReturn, overtook>>
    /\ UNCHANGED <<instVars, fsVars, fetchVars, unpackVars, verVars, stVars, rtVars, hashVars>>

\* download_internal returned Ok: download returns it.
AttemptOk(i) ==
    /\ Running
    /\ i \in DOMAIN fetch
    /\ fetch[i].st = "running"
    /\ fetch' = [fetch EXCEPT ![i].st = "ok", ![i].log = Append(@, "ok")]
    /\ overtook' = (overtook \/ Overtakes(i))
    /\ UNCHANGED <<netcfg, downloads, chunkStart, results, dmReturn>>
    /\ UNCHANGED <<instVars, fsVars, fetchVars, unpackVars, verVars, stVars, rtVars, hashVars>>

\* download_internal returned Err(e): sleep and go round again while attempts <
\* max_attempts, else return Err(e), the error of this attempt.
AttemptFail(i) ==
    /\ Running
    /\ i \in DOMAIN fetch
    /\ fetch[i].st = "running"
    /\ IF ShouldRetry(fetch[i].attempts, netcfg.retry_attempts)
       THEN /\ fetch' = [fetch EXCEPT ![i].st = "waiting", ![i].log = Append(@, "fail"),
                                      ![i].delays = @ + 1]
            /\ UNCHANGED overtook
       ELSE /\ fetch' = [fetch EXCEPT ![i].st = "err", ![i].log = Append(@, "fail"),
                                      ![i].error = fetch[i].attempts]
            /\ overtook' = (overtook \/ Overtakes(i))
    /\ UNCHANGED <<netcfg, downloads, chunkStart, results, dmReturn>>
    /\ UNCHANGED <<instVars, fsVars, fetchVars, unpackVars, verVars, stVars, rtVars, hashVars>>

\* The retry delay has passed: the next attempt.
RetryAfterDelay(i) ==
    /\ Running
    /\ i \in DOMAIN fetch
    /\ fetch[i].st = "waiting"
    /\ fetch' = [fetch EXCEPT ![i].st = "running", ![i].attempts = @ + 1]
    /\ UNCHANGED <<netcfg, downloads, chunkStart, results, dmReturn, overtook>>
    /\ UNCHANGED <<instVars, fsVars, fetchVars, unpackVars, verVars, stVars, rtVars, hashVars>>

\* lib.rs 130-135: join_all is ready; the results of the chunk are pushed in
\* order, the first Err returns from download_multiple.
Collect ==
    LET hi == IF chunkStart + netcfg.max_concurrent_downloads - 1 < Len(downloads)
              THEN chunkStart + netcfg.max_concurrent_downloads - 1
              ELSE Len(downloads)
        failed == {i \in Chunk : fetch[i].st = "err"} IN
    /\ Running
    /\ netcfg.max_concurrent_downloads > 0
    /\ chunkStart <= Len(downloads)
    /\ ChunkDone
    /\ IF failed = {}
       THEN /\ results' = results \o ChunkResults(chunkStart, hi)
            /\ chunkStart' = chunkStart + netcfg.max_concurrent_downloads
            /\ UNCHANGED dmReturn
       ELSE /\ results' = results \o ChunkResults(chunkStart, FirstFailed(failed) - 1)
            /\ dmReturn' = [kind |-> "Err", results |-> <<>>,
                            error |-> [task |-> FirstFailed(failed),
                                       attempt |-> fetch[FirstFailed(failed)].error]]
            /\ UNCHANGED chunkStart
    /\ UNCHANGED <<netcfg, downloads, fetch, overtook>>
    /\ UNCHANGED <<instVars, fsVars, fetchVars, unpackVars, verVars, stVars, rtVars, hashVars>>

\* lib.rs 137: no chunk is left, Ok(results).
ReturnResults ==
    /\ Running
    /\ netcfg.max_concurrent_downloads > 0
    /\ chunkStart > Len(downloads)
    /\ dmReturn' = [kind |-> "Ok", results |-> results, error |-> NoReturn.error]
    /\ UNCHANGED <<netcfg, downloads, fetch, chunkStart, results, overtook>>
    /\ UNCHANGED <<instVars, fsVars, fetchVars, unpackVars, verVars, stVars, rtVars, hashVars>>

NextDownload ==
    \/ ChunksPanic
    \/ Collect
    \/ ReturnResults
    \/ \E i \in 1..MaxTasks :
        \/ FetchStart(i)
        \/ AttemptOk(i)
        \/ AttemptFail(i)
        \/ RetryAfterDelay(i)

SpecDownload == InitDownload /\ [][NextDownload]_vars

(***************************************************************************)
(* verify_installation.                                                    *)
(***************************************************************************)
\* The record of the name, if the state has one, with the files it owns; whether
\* its install path exists; which files exist under it. Install records the
\* files it finds under the install path, so none exists without the path; a
\* directory may hold files no record owns.
VerifyInputs ==
    {i \in [recorded : BOOLEAN, files : SUBSET FileNames,
            path_exists : BOOLEAN, on_disk : SUBSET FileNames] :
        /\ ~i.path_exists => i.on_disk = {}
        /\ ~i.recorded => i.files = {}}

\* verify_installation with the existence test of the loop inverted.
verify_installation_present(i) ==
    IF ~i.recorded
    THEN [NoVerification EXCEPT !.kind = "PackageNotFound"]
    ELSE LET missing_files == {f \in i.files : f \in i.on_disk} IN
         [kind |-> "Ok", valid |-> (missing_files = {}),
          missing_files |-> missing_files, corrupted_files |-> {}]

\* verify.rs 18-57
verify_installation(i) ==
    IF ~i.recorded
    THEN [NoVerification EXCEPT !.kind = "PackageNotFound"]
    ELSE IF ~i.path_exists
    THEN [kind |-> "Ok", valid |-> FALSE, missing_files |-> i.files,
          corrupted_files |-> {}]
    ELSE LET missing_files == {f \in i.files : f \notin i.on_disk}
             corrupted_files == {} IN
         [kind |-> "Ok", valid |-> (missing_files = {} /\ corrupted_files = {}),
          missing_files |-> missing_files, corrupted_files |-> corrupted_files]

InitVerify ==
    /\ StateIdle
    /\ InstallerIdle
    /\ FsIdle
    /\ FetchIdle
    /\ verify_checksums = TRUE
    /\ DefaultSignatures
    /\ NoHooksRun
    /\ scope = CommandScope
    /\ UnpackIdle
    /\ DownloadIdle
    /\ vIn \in VerifyInputs
    /\ vOut = NoVerification
    /\ rOut = "none"
    /\ RoundTripIdle
    /\ HashIdle

\* cocoatly-verify: verify_installation is called on the loaded state.
VerifyInstallation ==
    /\ vOut.kind = "none"
    /\ vOut' = verify_installation(vIn)
    /\ UNCHANGED <<vIn, rOut>>
    /\ UNCHANGED <<instVars, fsVars, fetchVars, unpackVars, dlVars, stVars, rtVars, hashVars>>

\* verify.rs 59-86
repair_package(i) ==
    LET verification == verify_installation(i) IN
    IF verification.kind # "Ok" THEN verification.kind
    ELSE IF verification.valid THEN "Ok"
    ELSE IF verification.missing_files # {} THEN "VerificationFailed"
    ELSE "Ok"

RepairPackage ==
    /\ rOut = "none"
    /\ rOut' = repair_package(vIn)
    /\ UNCHANGED <<vIn, vOut>>
    /\ UNCHANGED <<instVars, fsVars, fetchVars, unpackVars, dlVars, stVars, rtVars, hashVars>>

NextVerify ==
    \/ VerifyInstallation
    \/ RepairPackage

SpecVerify == InitVerify /\ [][NextVerify]_vars

(***************************************************************************)
(* The State Store on its own: a GlobalState, the calls made on it and the *)
(* file it is loaded from and saved to.                                    *)
(***************************************************************************)
MaxCalls == 4

MaxClock == 1

MaxFileSize == 1

\* The records handed to add_package.
StatePackages ==
    [name : Names, version : {[major |-> 1, prerelease |-> "none"]},
     requested_by : {{}}, files : {{}, {"f"}, {"f", "g"}}, checksum : Digests]

InitState ==
    /\ clock = 0
    /\ gs = NewState
    /\ file = Missing
    /\ fsize \in [FileNames -> 0..MaxFileSize]
    /\ stLast = NoCall
    /\ InstallerIdle
    /\ FsIdle
    /\ FetchIdle
    /\ verify_checksums = TRUE
    /\ DefaultSignatures
    /\ NoHooksRun
    /\ scope = CommandScope
    /\ UnpackIdle
    /\ DownloadIdle
    /\ VerifyIdle
    /\ RoundTripIdle
    /\ HashIdle

\* The call `o` on gs has returned.
Called(o, n, present, ok) ==
    stLast' = [op |-> o, after |-> stLast.op, name |-> n, present |-> present,
               ok |-> ok, n |-> stLast.n + 1]

CanCall == stLast.n < MaxCalls

\* Time passes between two calls.
Tick ==
    /\ clock < MaxClock
    /\ clock' = clock + 1
    /\ UNCHANGED <<gs, file, fsize, stLast>>
    /\ UNCHANGED <<instVars, fsVars, fetchVars, unpackVars, dlVars, verVars, rtVars, hashVars>>

AddPackage ==
    /\ CanCall
    /\ \E pkg \in StatePackages :
        /\ gs' = add_package(gs, pkg)
        /\ Called("add", pkg.name, pkg.name \in DOMAIN gs.installed_packages, TRUE)
    /\ UNCHANGED <<clock, file, fsize>>
    /\ UNCHANGED <<instVars, fsVars, fetchVars, unpackVars, dlVars, verVars, rtVars, hashVars>>

RemovePackage ==
    /\ CanCall
    /\ \E n \in Names :
        /\ gs' = remove_package(gs, n)
        /\ Called("remove", n, n \in DOMAIN gs.installed_packages, TRUE)
    /\ UNCHANGED <<clock, file, fsize>>
    /\ UNCHANGED <<instVars, fsVars, fetchVars, unpackVars, dlVars, verVars, rtVars, hashVars>>

UpdateMetadata ==
    /\ CanCall
    /\ gs' = update_metadata(gs, fsize)
    /\ Called("update_metadata", "a", FALSE, TRUE)
    /\ UNCHANGED <<clock, file, fsize>>
    /\ UNCHANGED <<instVars, fsVars, fetchVars, unpackVars, dlVars, verVars, rtVars, hashVars>>

\* state.rs 41-49: on an error the caller is left with the state it had.
LoadFromFile ==
    /\ CanCall
    /\ IF LoadOk(file)
       THEN gs' = load_from_file(file) /\ Called("load", "a", FALSE, TRUE)
       ELSE gs' = gs /\ Called("load", "a", FALSE, FALSE)
    /\ UNCHANGED <<clock, file, fsize>>
    /\ UNCHANGED <<instVars, fsVars, fetchVars, unpackVars, dlVars, verVars, rtVars, hashVars>>

\* state.rs 51-59
SaveToFile ==
    /\ CanCall
    /\ \/ file' = Document(gs) /\ Called("save", "a", FALSE, TRUE)
       \/ file' \in SaveErrorOutcomes(file, gs) /\ Called("save", "a", FALSE, FALSE)
    /\ UNCHANGED <<clock, gs, fsize>>
    /\ UNCHANGED <<instVars, fsVars, fetchVars, unpackVars, dlVars, verVars, rtVars, hashVars>>

NextState ==
    \/ Tick
    \/ AddPackage
    \/ RemovePackage
    \/ UpdateMetadata
    \/ LoadFromFile
    \/ SaveToFile

SpecState == InitState /\ [][NextState]_vars

(***************************************************************************)
(* TarGzCompressor::compress and decompress, one after the other.          *)
(***************************************************************************)
MaxTreeDepth == 2

\* File and directory names, and file contents.
TreeNames == {"s", "x"}

Contents == {"c1", "c2"}

\* Paths relative to the source directory.
RelPaths == SeqsUpTo(TreeNames, MaxTreeDepth)

\* q lies strictly below p
Below(p, q) == Len(q) > Len(p) /\ SubSeq(q, 1, Len(p)) = p

\* The directories holding regular files only: a set of <<path, contents>> with
\* one entry per path and no file below a file.
Trees ==
    {t \in SUBSET (RelPaths \X Contents) :
        \A e1, e2 \in t :
            /\ e1[1] = e2[1] => e1 = e2
            /\ ~Below(e1[1], e2[1])}

\* The subdirectories of a tree.
SubDirs(t) == {p \in RelPaths : \E e \in t : Below(p, e[1])}

\* A source directory, the subdirectories of it that cannot be read (WalkDir
\* yields an error for them), and the empty output directory.
RoundTripInputs ==
    {i \in [dir : Trees, denied : SUBSET RelPaths, out : {<<"out">>}] :
        i.denied \subseteq SubDirs(i.dir)}

InitRoundTrip ==
    /\ StateIdle
    /\ InstallerIdle
    /\ FsIdle
    /\ FetchIdle
    /\ verify_checksums = TRUE
    /\ DefaultSignatures
    /\ NoHooksRun
    /\ scope = CommandScope
    /\ UnpackIdle
    /\ DownloadIdle
    /\ VerifyIdle
    /\ rtIn \in RoundTripInputs
    /\ rtArchive = {}
    /\ rtOut = {}
    /\ rtPc = "start"
    /\ HashIdle

\* lib.rs 24-27: the entries WalkDir yields as Ok; the errors are filtered out.
Walked(i) == {e \in i.dir : ~\E d \in i.denied : Below(d, e[1])}

\* lib.rs 28-36: each regular file is appended under its path relative to the
\* source directory.
compress(i) == {[path |-> [abs |-> FALSE, comps |-> e[1]], bytes |-> e[2]] : e \in Walked(i)}

\* lib.rs 59-70: each entry is unpacked to output_path.join(path).
decompress(archive, out) ==
    {<<EntryTarget([abs |-> TRUE, comps |-> out], e.path), e.bytes>> : e \in archive}

\* compress returns Ok, or an error of File::create, append or finish.
Compress ==
    /\ rtPc = "start"
    /\ \/ rtArchive' = compress(rtIn) /\ rtPc' = "packed"
       \/ \E part \in SUBSET compress(rtIn) : rtArchive' = part /\ rtPc' = "failed"
    /\ UNCHANGED <<rtIn, rtOut>>
    /\ UNCHANGED <<instVars, fsVars, fetchVars, unpackVars, dlVars, verVars, stVars, hashVars>>

\* decompress returns Ok, or the error of an entry with the entries unpacked
\* before it left in place.
Decompress ==
    /\ rtPc = "packed"
    /\ \/ rtOut' = decompress(rtArchive, rtIn.out) /\ rtPc' = "unpacked"
       \/ \E part \in SUBSET rtArchive :
             /\ part # rtArchive
             /\ rtOut' = decompress(part, rtIn.out)
             /\ rtPc' = "failed"
    /\ UNCHANGED <<rtIn, rtArchive>>
    /\ UNCHANGED <<instVars, fsVars, fetchVars, unpackVars, dlVars, verVars, stVars, hashVars>>

NextRoundTrip == Compress \/ Decompress

SpecRoundTrip == InitRoundTrip /\ [][NextRoundTrip]_vars

(***************************************************************************)
(* cocoatly-crypto: verify_hash, verify_file_hash, verify_artifact.        *)
(***************************************************************************)
\* What a file holds: nothing (there is no file), or some bytes.
FileBytes == {"absent", "partial"} \cup Blobs

\* The expected strings: the digest of some bytes under some algorithm, or
\* another string.
ExpectedStrings ==
    {compute(d, a) : d \in Blobs, a \in HashAlgorithms} \cup {compute("", "none")}

HashInputs ==
    [bytes : FileBytes, expected : ExpectedStrings, algorithm : HashAlgorithms,
     signature : Signatures, public_key : {"none"} \cup Keys]

InitHash ==
    /\ StateIdle
    /\ InstallerIdle
    /\ FsIdle
    /\ FetchIdle
    /\ verify_checksums = TRUE
    /\ DefaultSignatures
    /\ NoHooksRun
    /\ scope = CommandScope
    /\ UnpackIdle
    /\ DownloadIdle
    /\ VerifyIdle
    /\ RoundTripIdle
    /\ hIn \in HashInputs
    /\ hOut = NoHashCall

\* verify_hash is handed the bytes themselves.
VerifyHash ==
    /\ hOut.fn = "none"
    /\ hIn.bytes # "absent"
    /\ hOut' = [fn |-> "verify_hash",
                result |-> verify_hash(hIn.bytes, hIn.expected, hIn.algorithm)]
    /\ UNCHANGED hIn
    /\ UNCHANGED <<instVars, fsVars, fetchVars, unpackVars, dlVars, verVars, stVars, rtVars>>

VerifyFileHash ==
    /\ hOut.fn = "none"
    /\ hOut' = [fn |-> "verify_file_hash",
                result |-> verify_file_hash(hIn.bytes, hIn.expected, hIn.algorithm)]
    /\ UNCHANGED hIn
    /\ UNCHANGED <<instVars, fsVars, fetchVars, unpackVars, dlVars, verVars, stVars, rtVars>>

VerifyArtifact ==
    /\ hOut.fn = "none"
    /\ hOut' = [fn |-> "verify_artifact",
                result |-> verify_artifact(hIn.bytes,
                               [checksum |-> hIn.expected,
                                checksum_algorithm |-> hIn.algorithm,
                                signature |-> hIn.signature],
                               hIn.public_key)]
    /\ UNCHANGED hIn
    /\ UNCHANGED <<instVars, fsVars, fetchVars, unpackVars, dlVars, verVars, stVars, rtVars>>

NextHash ==
    \/ VerifyHash
    \/ VerifyFileHash
    \/ VerifyArtifact

SpecHash == InitHash /\ [][NextHash]_vars

(***************************************************************************)
(* Properties.                                                             *)
(***************************************************************************)
\* The persisted State Store holds a record of name n at version v.
Recorded(d, n, v) ==
    /\ d.kind = "doc"
    /\ n \in DOMAIN load_from_file(d).installed_packages
    /\ load_from_file(d).installed_packages[n].version = v

\* No invocation is running.
Quiescent == \A p \in Procs : pc[p] = "idle"

\* The stages of install before the commit step.
PreCommitStages == {"check", "download", "verify", "extract", "copy", "cleanup"}

InstallStages == PreCommitStages \cup {"commit"}

\* The invocation that has just returned came back from install (called directly
\* or from update).
ReturnedFromInstall ==
    /\ last.status \in {"ok", "err"}
    /\ last.op \in {"install", "update"}
    /\ last.stage \in InstallStages

\* install has just failed at a stage before the commit step.
FailedBeforeCommit ==
    /\ last.status = "err"
    /\ last.op \in {"install", "update"}
    /\ last.stage \in PreCommitStages

LastName == last.arg.artifact.name

LastVersion == last.arg.artifact.version

LastInstallPath == InstallPath(LastName, LastVersion)

\* C1: once every call has completed, the persisted State Store holds a record
\* for (name, version) exactly when the directory install_root/name/version
\* exists, whatever stages failed on the way.
C1_StoreMatchesFilesystem ==
    Quiescent =>
        \A n \in Names, v \in Versions :
            Recorded(disk, n, v) <=> dirs[InstallPath(n, v)].exists

\* C2, as claimed (read for a call during which no other invocation writes the
\* state file): after install failed at any stage before commit, check included,
\* has_package(name, version) is false on the persisted store and the document
\* is identical to what it was before the call.
C2_FailedInstallNotRecorded ==
    (FailedBeforeCommit /\ ~last.interfered) =>
        /\ disk = last.before
        /\ ~Recorded(disk, LastName, LastVersion)

\* C2, amended: after install failed at any stage before commit, with no other
\* invocation writing the state file meanwhile, the document is identical to what
\* it was before the call; has_package(name, version) is false on it, except after
\* the already-installed rejection, where it is true.
C2_FailedInstallLeavesStore ==
    (FailedBeforeCommit /\ ~last.interfered) =>
        /\ disk = last.before
        /\ Recorded(disk, LastName, LastVersion) <=> last.stage = "check"

\* An install failed while copying into the install path, with a store that
\* already held a document.
C2_Witness ==
    /\ FailedBeforeCommit
    /\ ~last.interfered
    /\ last.stage = "copy"
    /\ last.before.kind = "doc"

\* C3: no lost update: when an install returns Ok, every package another
\* invocation installed, returning Ok, while this one ran is recorded in the
\* persisted State Store beside this one's.
C3_NoLostUpdate ==
    (last.status = "ok" /\ last.op = "install") =>
        \A n \in last.seen \cup {LastName} :
            /\ disk.kind = "doc"
            /\ n \in DOMAIN load_from_file(disk).installed_packages

\* C4: a record is never silently overwritten: when install of name@v2 returns
\* Ok and the store held a record name@v1 (v1 # v2) when the call began, nothing
\* having been uninstalled meanwhile, the v1 record is still the one recorded.
C4_NoSilentOverwrite ==
    (last.status = "ok" /\ last.op = "install" /\ ~last.interfered) =>
        \A v \in Versions \ {LastVersion} :
            Recorded(last.before, LastName, v) => Recorded(disk, LastName, v)

\* C5: when install has failed before commit, the install directory
\* install_root/name/version is not left behind partially populated: it exists
\* only if the package is recorded.
C5_NoPartialInstallDir ==
    FailedBeforeCommit =>
        (dirs[LastInstallPath].exists => Recorded(disk, LastName, LastVersion))

\* C6: on every exit path of install the temp artifacts of the transaction are
\* gone: the downloaded archive and the extract directory.
C6_TempPurged ==
    ReturnedFromInstall =>
        /\ archives[ArchivePath(LastName, LastVersion)] = "absent"
        /\ ~last.extract.exists

\* C7: a crash inside save_to_file leaves the complete previous document or the
\* complete new one at the state file's path.
C7_SaveAtomic ==
    last.status = "crashed" =>
        disk \in {last.prev, Document(last.mem)}

\* C8: the step of install that finds the name+version recorded in the loaded
\* state returns the already-installed error and changes nothing: no archive, no
\* directory, no extract directory, the state in memory and the state file as
\* they were.
C8_AlreadyInstalledRejected ==
    [][\A p \in Procs :
         (/\ pc[p] = "check"
          /\ pc'[p] # "check"
          /\ arg[p].artifact.name \in DOMAIN mem[p].installed_packages
          /\ mem[p].installed_packages[arg[p].artifact.name].version = arg[p].artifact.version)
         => /\ last'.status = "err"
            /\ last'.error = "AlreadyInstalled"
            /\ last'.proc = p
            /\ last'.mem = mem[p]
            /\ ~last'.extract.exists
            /\ pc'[p] = "idle"
            /\ UNCHANGED <<disk, dirs, pkgDirs, archives, orphans>>]_vars

\* An install of a recorded name+version was rejected.
C8_Witness ==
    /\ last.status = "err"
    /\ last.op = "install"
    /\ last.error = "AlreadyInstalled"
    /\ Recorded(disk, LastName, LastVersion)

\* C9: after install returned HashMismatch there is no record of the package,
\* nothing was extracted and the temp archive has been removed.
C9_HashMismatchCleansUp ==
    (last.status = "err" /\ last.error = "HashMismatch") =>
        /\ ~last.extract.exists
        /\ (~last.interfered => ~Recorded(disk, LastName, LastVersion))
        /\ archives[ArchivePath(LastName, LastVersion)] = "absent"

\* C10: unpack writes no file outside output_dir, whatever paths the archive's
\* entries carry.
C10_UnpackStaysInside ==
    \A loc \in uOut : Inside(uIn.out, loc)

\* The fetches started and not yet finished.
Outstanding == {i \in DOMAIN fetch : fetch[i].st \in {"running", "waiting"}}

\* What download owes for one call when it may make `limit` attempts: no more
\* attempts than that; nothing follows a successful attempt; one delay after
\* every failed attempt but the final one; Err only after `limit` failed
\* attempts, and then the error of the final one.
FetchContract(f, limit) ==
    /\ f.attempts <= limit
    /\ Len(f.log) = (IF f.st = "running" THEN f.attempts - 1 ELSE f.attempts)
    /\ \A k \in 1..Len(f.log) : f.log[k] = "ok" => (k = Len(f.log) /\ f.st = "ok")
    /\ f.st = "ok" => f.log[Len(f.log)] = "ok"
    /\ f.delays = (IF f.st = "waiting" THEN f.attempts
                   ELSE IF f.st = "idle" THEN 0 ELSE f.attempts - 1)
    /\ f.st = "waiting" => f.attempts < limit
    /\ f.st = "err" => (f.attempts = limit /\ f.error = f.attempts)

\* The attempts download makes at most: it always makes one.
AttemptLimit == IF netcfg.retry_attempts > 1 THEN netcfg.retry_attempts ELSE 1

\* C11, as claimed: download makes at most max_attempts attempts, returns at the
\* first successful one, waits the retry delay after each failed attempt that is
\* not the final one, and returns the error of the final attempt when all
\* max_attempts attempts failed.
C11_AtMostMaxAttempts ==
    \A i \in DOMAIN fetch : FetchContract(fetch[i], netcfg.retry_attempts)

\* C11, amended: the same with max(max_attempts, 1) attempts: download always
\* makes a first attempt, also when max_attempts is 0.
C11_AtMostLimitAttempts ==
    \A i \in DOMAIN fetch : FetchContract(fetch[i], AttemptLimit)

\* A download failed for good after a retry; another succeeded on a retry.
C11_Witness ==
    /\ netcfg.retry_attempts = 2
    /\ \E i \in DOMAIN fetch : fetch[i].st = "err" /\ fetch[i].delays = 1
    /\ \E i \in DOMAIN fetch : fetch[i].st = "ok" /\ fetch[i].log = <<"fail", "ok">>

\* C12: at every instant of download_multiple at most max_concurrent_downloads
\* fetches have been started and have not finished.
C12_OutstandingWithinLimit ==
    Cardinality(Outstanding) <= netcfg.max_concurrent_downloads

\* As many fetches as the limit allows are outstanding, with more tasks to come.
C12_Witness ==
    /\ netcfg.max_concurrent_downloads = 2
    /\ Len(downloads) > 2
    /\ Cardinality(Outstanding) = 2

\* The chunk task i belongs to, for a positive limit.
ChunkOf(i) == (i - 1) \div netcfg.max_concurrent_downloads

\* C13: a fetch has been started only if every fetch of every earlier chunk has
\* finished and its result has been collected.
C13_NoChunkOverlap ==
    netcfg.max_concurrent_downloads > 0 =>
        \A i, j \in DOMAIN fetch :
            (fetch[i].st # "idle" /\ ChunkOf(j) < ChunkOf(i)) =>
                (Finished(j) /\ j <= Len(results))

\* A fetch of the second chunk runs.
C13_Witness ==
    /\ netcfg.max_concurrent_downloads = 2
    /\ Len(downloads) > 2
    /\ fetch[3].st = "running"

Failures == {i \in DOMAIN fetch : fetch[i].st = "err"}

\* C14: when download_multiple has returned Err, the error is that of the first
\* failed task, in submission order, of the chunk that failed, no result list is
\* returned, and no fetch of a later chunk has been started.
C14_FirstFailureReturned ==
    dmReturn.kind = "Err" =>
        /\ Failures # {}
        /\ \E f \in Failures :
              /\ \A g \in Failures : f <= g /\ ChunkOf(g) = ChunkOf(f)
              /\ dmReturn.error = [task |-> f, attempt |-> fetch[f].error]
              /\ \A i \in DOMAIN fetch : ChunkOf(i) > ChunkOf(f) => fetch[i].st = "idle"
        /\ dmReturn.results = <<>>

\* Two fetches of the first chunk failed, the later one first, and a second
\* chunk was waiting.
C14_Witness ==
    /\ dmReturn.kind = "Err"
    /\ Cardinality(Failures) = 2
    /\ overtook
    /\ Len(downloads) > netcfg.max_concurrent_downloads

\* C15: download_multiple returns Ok whenever it returns with every fetch
\* successful, and what it returns then is one DownloadResult per task, the i-th
\* with the url and destination of the i-th task.
C15_ResultsInSubmissionOrder ==
    /\ (dmReturn.kind = "Err" => Failures # {})
    /\ dmReturn.kind = "Ok" =>
          /\ Len(dmReturn.results) = Len(downloads)
          /\ \A i \in DOMAIN downloads :
                /\ dmReturn.results[i].url = downloads[i].url
                /\ dmReturn.results[i].destination = downloads[i].destination

\* Three tasks under a limit of two, one fetch finishing before an earlier one.
C15_Witness ==
    /\ dmReturn.kind = "Ok"
    /\ Len(downloads) = 3
    /\ netcfg.max_concurrent_downloads = 2
    /\ overtook

\* Semantic-version precedence: by number, a prerelease before its release.
SemverLess(v, w) ==
    \/ v.major < w.major
    \/ v.major = w.major /\ v.prerelease # "none" /\ w.prerelease = "none"

\* C16: an update goes on past its checks only to a version strictly greater
\* than the installed one; an update refused by the checks has touched nothing:
\* the state file and the state in memory are as loaded, nothing was removed or
\* downloaded.
C16_UpdateRefusesNotGreater ==
    /\ \A p \in Procs :
          (op[p] = "update" /\ pc[p] # "idle") =>
              SemverLess(mem[p].installed_packages[arg[p].target].version,
                         arg[p].artifact.version)
    /\ (last.status = "err" /\ last.op = "update" /\ last.stage = "compare") =>
          /\ disk = last.prev
          /\ last.mem = load_from_file(disk)
          /\ ~last.extract.exists

\* C17: the step in which update returns Ok leaves the store with a record for
\* name at the new version, with the requested_by of the record installed before,
\* the old version's install directory gone, and every other name recorded as it
\* was before the update.
C17_UpdateReplacesRecord ==
    [][\A p \in Procs :
         (pc[p] = "reload" /\ last'.status = "ok" /\ last'.proc = p) =>
            LET old == mem[p].installed_packages
                new == load_from_file(disk').installed_packages
                n == arg[p].target IN
            /\ disk'.kind = "doc"
            /\ n \in DOMAIN new
            /\ new[n].version = arg[p].artifact.version
            /\ new[n].requested_by = old[n].requested_by
            /\ ~dirs'[InstallPath(n, old[n].version)].exists
            /\ DOMAIN new = DOMAIN old
            /\ \A m \in DOMAIN old \ {n} : new[m] = old[m]]_vars

\* A call of operation o starts in this step for invocation p.
Calls(p, o) ==
    /\ nOps' = nOps + 1
    /\ pc[p] = "idle"
    /\ \/ pc'[p] # "idle" /\ op'[p] = o
       \/ last'.status # "none" /\ last'.proc = p /\ last'.op = o

\* The name the call is about.
CalledTarget(p) == IF pc'[p] # "idle" THEN arg'[p].target ELSE last'.arg.target

\* C18: uninstall of a name the loaded State Store has no record of returns
\* PackageNotFound at once; the state in memory is the one loaded, the state file
\* and the filesystem are unchanged.
C18_UninstallUnknownRejected ==
    [][\A p \in Procs :
         (/\ Calls(p, "uninstall")
          /\ LoadOk(disk)
          /\ CalledTarget(p) \notin DOMAIN load_from_file(disk).installed_packages)
         => /\ last'.status = "err"
            /\ last'.proc = p
            /\ last'.error = "PackageNotFound"
            /\ last'.mem = load_from_file(disk)
            /\ pc'[p] = "idle"
            /\ UNCHANGED <<disk, dirs, pkgDirs, archives, orphans>>]_vars

\* An uninstall of an unknown name was rejected while another package is recorded
\* and installed.
C18_Witness ==
    /\ last.status = "err"
    /\ last.op = "uninstall"
    /\ last.error = "PackageNotFound"
    /\ disk.kind = "doc"
    /\ DOMAIN load_from_file(disk).installed_packages # {}
    /\ pkgDirs # {}

\* An uninstall has just returned Ok.
Uninstalled == last.status = "ok" /\ last.op = "uninstall"

\* Some file is left under install_root/n.
FilesRemainUnder(n) == \E d \in Paths : d[1] = n /\ dirs[d].files # {}

\* C19: after a successful uninstall(name) the store has no record for name, the
\* record's install directory is gone, install_root/name exists exactly when
\* files of another version remain under it, and the records of all other
\* packages are as before the call; the step that deletes the files removes
\* install_root/name exactly when no file of another version is under it, and no
\* step of an uninstall touches the directories of another package.
C19_UninstallRemoves ==
    /\ [](Uninstalled =>
            LET n == last.arg.target
                old == load_from_file(last.before).installed_packages
                new == load_from_file(disk).installed_packages IN
            /\ disk.kind = "doc"
            /\ n \notin DOMAIN new
            /\ ~dirs[InstallPath(n, old[n].version)].exists
            /\ n \in pkgDirs <=> FilesRemainUnder(n)
            /\ DOMAIN new = DOMAIN old \ {n}
            /\ \A m \in DOMAIN new : new[m] = old[m])
    /\ [][\A p \in Procs :
            (op[p] = "uninstall" /\ pc[p] \in {"remove", "uncommit"} /\ pc'[p] # pc[p]) =>
                /\ \A d \in Paths : d[1] # arg[p].target => dirs'[d] = dirs[d]
                /\ pkgDirs' \ {arg[p].target} = pkgDirs \ {arg[p].target}
                /\ pc'[p] = "uncommit" =>
                      LET n == arg[p].target
                          own == InstallPath(n, mem[p].installed_packages[n].version)
                          others == \E d \in Paths :
                                       d[1] = n /\ d # own /\ dirs[d].files # {} IN
                      /\ n \in pkgDirs' <=> (n \in pkgDirs /\ others)
                      /\ others => \A d \in Paths \ {own} : dirs'[d] = dirs[d]]_vars

\* An uninstall succeeded and left install_root/name in place for the files of
\* another version, with another package recorded.
C19_Witness ==
    /\ Uninstalled
    /\ last.arg.target \in pkgDirs
    /\ FilesRemainUnder(last.arg.target)

\* C20: a VerificationResult has valid true exactly when its missing_files and
\* corrupted_files are both empty.
C20_ValidIffNothingMissing ==
    vOut.kind = "Ok" =>
        (vOut.valid <=> (vOut.missing_files = {} /\ vOut.corrupted_files = {}))

\* C21: verify_installation of a recorded package reports as missing exactly
\* the owned files that do not exist (all of them when the install path is
\* gone), and a result with a missing file is not valid.
C21_MissingFilesExact ==
    vOut # NoVerification =>
        IF vIn.recorded
        THEN /\ vOut.kind = "Ok"
             /\ vOut.missing_files = vIn.files \ vIn.on_disk
             /\ ~vIn.path_exists => vOut.missing_files = vIn.files
             /\ vOut.missing_files # {} => ~vOut.valid
        ELSE vOut.kind = "PackageNotFound"

\* One owned file was deleted, another is still there.
C21_Witness ==
    /\ vOut.kind = "Ok"
    /\ vIn.path_exists
    /\ vOut.missing_files = {"f"}
    /\ "g" \in vIn.files \cap vIn.on_disk
    /\ ~vOut.valid

\* C22: repair_package returns Ok only for a package that verifies as valid;
\* with owned files or the install path missing it returns an error.
C22_RepairFailsWhenInvalid ==
    rOut = "Ok" =>
        /\ vIn.recorded
        /\ vIn.path_exists
        /\ vIn.files \subseteq vIn.on_disk
        /\ verify_installation(vIn).valid

\* C23: after any sequence of add_package and remove_package calls, a name
\* already present or a name absent included, metadata.total_packages is the
\* number of entries of installed_packages.
C23_TotalPackagesIsCount ==
    gs.metadata.total_packages = Cardinality(DOMAIN gs.installed_packages)

\* A name already present was added, or an absent one removed, beside a record.
C23_Witness ==
    /\ stLast.op \in {"add", "remove"}
    /\ stLast.after \in {"add", "remove"}
    /\ (stLast.op = "add") = stLast.present
    /\ gs.metadata.total_packages = 1

\* C24: after add_package or remove_package both metadata.total_packages and
\* metadata.total_size_bytes are the values derived from the package mapping.
C24_MetadataDerivable ==
    stLast.op \in {"add", "remove"} =>
        /\ gs.metadata.total_packages = Cardinality(DOMAIN gs.installed_packages)
        /\ gs.metadata.total_size_bytes = TotalSize(gs, fsize)

\* C26: load_from_file where no file exists returns Ok with a state that has no
\* packages, no pending operations and total_packages 0, and creates no file.
C26_LoadMissingIsFresh ==
    [][(stLast'.n # stLast.n /\ stLast'.op = "load" /\ file.kind = "missing") =>
            /\ stLast'.ok
            /\ gs'.installed_packages = <<>>
            /\ gs'.pending_operations = <<>>
            /\ gs'.metadata.total_packages = 0
            /\ file'.kind = "missing"]_vars

\* The state in memory had a package when the missing file was loaded.
C26_Witness ==
    /\ stLast.op = "load"
    /\ stLast.after = "add"
    /\ stLast.ok
    /\ file.kind = "missing"
    /\ gs.installed_packages = <<>>

C25_FilesAreArchiveFiles ==
    (/\ last.status = "ok" /\ last.op = "install"
     /\ ~Recorded(last.before, LastName, LastVersion)) =>
        /\ Recorded(disk, LastName, LastVersion)
        /\ load_from_file(disk).installed_packages[LastName].files
               = BlobFiles(last.arg.artifact.url)

\* The files under the output directory, by their paths relative to it.
Unpacked ==
    {<<SubSeq(f[1], Len(rtIn.out) + 1, Len(f[1])), f[2]>> : f \in rtOut}

\* C28: compress_directory of a directory of regular files followed by
\* extract_archive into an empty directory gives the same relative paths with
\* the same contents.
C28_RoundTrip ==
    rtPc = "unpacked" => Unpacked = rtIn.dir

\* The digest of the bytes handed in, computed apart from the function called.
RealDigest == <<hIn.algorithm, hIn.bytes>>

\* C29: verify_hash and verify_file_hash return Ok exactly when the digest of
\* the data is the expected string, and otherwise HashMismatch carrying the
\* expected string handed in and the digest of the data, under each algorithm
\* (verify_file_hash returns the I/O error when there is no file to read).
C29_HashVerdict ==
    hOut.fn \in {"verify_hash", "verify_file_hash"} =>
        IF hIn.bytes = "absent" THEN hOut.result.kind = "IoError"
        ELSE /\ hOut.result.kind \in {"Ok", "HashMismatch"}
             /\ hOut.result.kind = "Ok" <=> RealDigest = hIn.expected
             /\ hOut.result.kind = "HashMismatch" =>
                   /\ hOut.result.expected = hIn.expected
                   /\ hOut.result.actual = RealDigest

\* The expected string is the digest of other bytes under the same algorithm.
C29_Witness ==
    /\ hOut.fn = "verify_file_hash"
    /\ hOut.result.kind = "HashMismatch"
    /\ hIn.bytes = "B1"
    /\ hIn.algorithm = "sha512"
    /\ hIn.expected = <<"sha512", "B2">>

\* C30: verify_artifact returns HashMismatch on a digest mismatch without
\* touching the signature; it verifies the signature exactly when the
\* descriptor carries one and a public key is supplied; with either absent it
\* returns Ok for a file whose digest matches.
C30_ArtifactVerdict ==
    LET r == hOut.result
        both == hIn.signature.present /\ hIn.public_key # "none"
        signed == /\ hIn.signature.hex
                  /\ hIn.signature.key = hIn.public_key
                  /\ hIn.signature.msg = RealDigest IN
    (hOut.fn = "verify_artifact" /\ hIn.bytes # "absent") =>
        IF RealDigest # hIn.expected
        THEN /\ r.kind = "HashMismatch"
             /\ r.expected = hIn.expected /\ r.actual = RealDigest
             /\ ~r.signature_checked
        ELSE /\ ~both => (r.kind = "Ok" /\ ~r.signature_checked)
             /\ both => /\ r.kind = (IF signed THEN "Ok" ELSE "InvalidSignature")
                        /\ r.signature_checked = hIn.signature.hex

\* A signed descriptor and a key, and a digest that does not match.
C30_Witness ==
    /\ hOut.fn = "verify_artifact"
    /\ hOut.result.kind = "HashMismatch"
    /\ hIn.signature.present
    /\ ~hIn.signature.hex
    /\ hIn.public_key = "k1"

(***************************************************************************)
(* Signature checking in install.                                          *)
(***************************************************************************)
\* Signature checking is configured for descriptor a: verify_signatures is on,
\* a key is trusted, the descriptor carries a signature.
SignatureConfigured(a) ==
    verify_signatures /\ trusted_keys # {} /\ a.signature.present

\* The signature of a is the hex of a signature a trusted key made over the
\* digest of bytes.
SignatureValid(a, bytes) ==
    /\ a.signature.hex
    /\ \E k \in trusted_keys :
          verify_signature(k, compute(bytes, "sha256"), a.signature)

\* C31: when signature checking is configured, an install whose descriptor
\* carries a signature that is not valid for the downloaded file never reaches
\* Extracting and never returns Ok with the package recorded.
C31_InvalidSignatureStopped ==
    /\ \A p \in Procs :
         (At(p, "extract") /\ op[p] = "install" /\ SignatureConfigured(arg[p].artifact))
         => SignatureValid(arg[p].artifact,
                           archives[ArchivePath(arg[p].artifact.name,
                                                arg[p].artifact.version)])
    /\ (last.status = "ok" /\ last.op = "install"
           /\ SignatureConfigured(last.arg.artifact))
         => SignatureValid(last.arg.artifact, last.arg.artifact.url)

(***************************************************************************)
(* The order of the stages of install.                                     *)
(***************************************************************************)
\* The stages of install in the order install.rs 61-92 runs them.
StageOrder == <<"check", "download", "verify", "extract", "copy", "cleanup", "commit">>

\* stage `to` is the one that follows stage `from`.
NextStage(from, to) ==
    \E i \in 1..(Len(StageOrder) - 1) :
        StageOrder[i] = from /\ StageOrder[i + 1] = to

\* The archive at the download path of p's artifact passes the integrity check
\* of p's descriptor.
IntegrityOk(p) ==
    LET a == arg[p].artifact IN
    verify_artifact(archives[ArchivePath(a.name, a.version)], Descriptor(a), "none").kind = "Ok"

\* C32: an install run goes through its stages in order, none skipped: every
\* step of it moves to the next stage or returns, the archive it unpacks passes
\* the integrity check, files appear under the install path in the copy stage
\* only and the record is written in the commit stage only.
C32_StagesInOrder ==
    [][\A p \in Procs :
         (op[p] = "install" /\ pc'[p] # pc[p]) =>
            /\ pc'[p] = "idle" \/ NextStage(pc[p], pc'[p])
            /\ (pc[p] = "extract" /\ pc'[p] = "copy") => IntegrityOk(p)
            /\ dirs' # dirs => pc[p] = "copy"
            /\ disk' # disk => pc[p] = "commit"]_vars

(***************************************************************************)
(* Commit and the purge of the downloaded archive.                         *)
(***************************************************************************)
\* The state file holds a record of p's artifact.
Persisted(p) ==
    has_package(load_from_file(disk), arg[p].artifact.name, arg[p].artifact.version)

\* C33: install purges the downloaded archive after the commit: when
\* cleanup_temp_files runs over a populated install directory, whether it
\* succeeds or fails, the record of the package is in the persisted state.
C33_CommitBeforePurge ==
    [][\A p \in Procs :
         (/\ pc[p] = "cleanup" /\ pc'[p] # "cleanup"
          /\ dirs[InstallPath(arg[p].artifact.name, arg[p].artifact.version)].exists)
         => Persisted(p)]_vars

(***************************************************************************)
(* The temp paths of concurrent installs.                                  *)
(***************************************************************************)
\* p's install has written its download path and has not yet removed the archive
\* (download_artifact has returned, cleanup_temp_files has not).
HoldsArchive(p) == pc[p] \in {"verify", "extract", "copy", "cleanup"}

\* download_artifact, install.rs 106-112: the path p's archive is downloaded to.
DownloadPath(p) == ArchivePath(arg[p].artifact.name, arg[p].artifact.version)

\* C34: two install transactions that run at the same time use different temp
\* paths: their downloaded archives are at different paths (their extract
\* directories, named by a fresh uuid each, always are).
C34_TempPathsDisjoint ==
    \A p, q \in Procs :
        (p # q /\ HoldsArchive(p) /\ HoldsArchive(q)) => DownloadPath(p) # DownloadPath(q)

(***************************************************************************)
(* Hooks.                                                                  *)
(***************************************************************************)
\* The hooks run in the step.
NewHooks == SubSeq(hookLog', Len(hookLog) + 1, Len(hookLog'))

\* The hooks run in the step are those of `point`, in declared order.
RunInOrder(point) ==
    /\ Len(NewHooks) = Len(hooks[point])
    /\ \A i \in 1..Len(NewHooks) :
         NewHooks[i].point = point /\ NewHooks[i].hook = hooks[point][i]

\* C35: hooks run in declared order at fixed points and leave the committed
\* state alone: the post-install hooks are run by the commit step, find the
\* record persisted, and after them the record is still persisted and the
\* install goes on to return Ok; the pre-uninstall hooks find the install path
\* as it was before the step that deletes; the post-uninstall hooks find the
\* record gone from the state file.
C35_HooksAtFixedPoints ==
    [][hookLog' # hookLog =>
         \E p \in Procs :
            \/ /\ pc[p] = "commit"
               /\ RunInOrder("post_install")
               /\ \A i \in 1..Len(NewHooks) : NewHooks[i].recorded
               /\ has_package(load_from_file(disk'), arg[p].artifact.name,
                              arg[p].artifact.version)
               /\ pc'[p] = "reload" \/ (last'.status = "ok" /\ last'.proc = p)
            \/ /\ pc[p] = "remove"
               /\ RunInOrder("pre_uninstall")
               /\ \A i \in 1..Len(NewHooks) :
                    /\ NewHooks[i].recorded
                    /\ NewHooks[i].dir =
                         dirs[InstallPath(arg[p].target,
                                          get_package(mem[p], arg[p].target).version)].exists
            \/ /\ pc[p] = "uncommit"
               /\ op[p] # "force_uninstall"
               /\ RunInOrder("post_uninstall")
               /\ \A i \in 1..Len(NewHooks) : ~NewHooks[i].recorded
               /\ arg[p].target \notin DOMAIN load_from_file(disk').installed_packages]_vars

\* An update has run the hooks of all three points, two at each.
C35_Witness ==
    /\ Len(hooks.post_install) = 2
    /\ \E i, j, k \in 1..Len(hookLog) :
         /\ i < j /\ j < k
         /\ hookLog[i].point = "pre_uninstall"
         /\ hookLog[j].point = "post_uninstall"
         /\ hookLog[k].point = "post_install"
    /\ last.status = "ok" /\ last.op = "update"

(***************************************************************************)
(* force_uninstall.                                                        *)
(***************************************************************************)
\* C36: force_uninstall is best effort: it never answers PackageNotFound, and
\* when it returns from the deletion of the install directory (which failed),
\* the record of the name is gone from the persisted state all the same.
C36_ForceUninstallBestEffort ==
    (last.status # "none" /\ last.op = "force_uninstall") =>
       /\ last.error # "PackageNotFound"
       /\ last.stage = "force_remove" =>
             last.arg.target \notin DOMAIN load_from_file(disk).installed_packages

C40_AlwaysReturns == dmReturn.kind \in {"run", "Ok", "Err"}

(***************************************************************************)
(* FileSystemOps (cocoatly-fs): directories and files as sets of paths.    *)
(***************************************************************************)
MaxFsDepth == 2

FsNames == {"d", "e"}

\* The paths the calls are given: one or more components below the root <<>>.
FsPaths == UNION {[1..n -> FsNames] : n \in 1..MaxFsDepth}

\* The paths the initial trees are built from: two levels below the root.
TreePaths == [1..1 -> FsNames] \cup [1..2 -> FsNames]

Parent(t) == SubSeq(t, 1, Len(t) - 1)

\* t and everything above it, the root included.
Prefixes(t) == {SubSeq(t, 1, k) : k \in 0..Len(t)}

IsPrefix(a, b) == Len(a) <= Len(b) /\ SubSeq(b, 1, Len(a)) = a

\* A file system: every directory's parent is a directory, every file sits
\* in a directory, nothing is both.
FileSystems ==
    {[dirs |-> D \cup {<<>>}, files |-> F] :
        <<D, F>> \in {x \in (SUBSET TreePaths) \X (SUBSET TreePaths) :
                        /\ x[1] \cap x[2] = {}
                        /\ \A t \in x[1] \cup x[2] : Parent(t) \in x[1] \cup {<<>>}}}

FsOk(fs) == [ok |-> TRUE, fs |-> fs]

FsErr(fs) == [ok |-> FALSE, fs |-> fs]

\* std::fs::create_dir_all: t and its missing ancestors are created; a file
\* on the way is an error.
create_dir_all(fs, t) ==
    IF Prefixes(t) \cap fs.files # {}
    THEN FsErr(fs)
    ELSE FsOk([fs EXCEPT !.dirs = @ \cup Prefixes(t)])

ensure_directory(fs, t) == create_dir_all(fs, t)

\* write_file: the parent is ensured, then File::create (an error on a
\* directory), write_all and flush.
write_file(fs, t) ==
    LET e == ensure_directory(fs, Parent(t))
    IN  IF ~e.ok THEN e
        ELSE IF t \in e.fs.dirs THEN FsErr(e.fs)
        ELSE FsOk([e.fs EXCEPT !.files = @ \cup {t}])

\* x, found below src, at the same place below dst.
Rebase(x, src, dst) == dst \o SubSeq(x, Len(src) + 1, Len(x))

Beneath(paths, src) == {x \in paths : IsPrefix(src, x)}

\* copy_directory: a missing source is NotFound; the destination is ensured;
\* every directory below the source is ensured below the destination, every
\* file has its parent ensured and is copied.  A source that is a file is
\* copied onto the destination directory, an error; so is a file copied onto
\* a directory or a directory ensured where a file is (what was copied
\* before such an error is left out).
copy_directory(fs, src, dst) ==
    IF src \notin fs.dirs \cup fs.files THEN FsErr(fs)
    ELSE LET e == ensure_directory(fs, dst)
         IN  IF ~e.ok THEN e
             ELSE IF src \in fs.files THEN FsErr(e.fs)
             ELSE LET newDirs == {Rebase(x, src, dst) : x \in Beneath(fs.dirs, src)}
                      newFiles == {Rebase(x, src, dst) : x \in Beneath(fs.files, src)}
                  IN  IF newDirs \cap e.fs.files # {} \/ newFiles \cap e.fs.dirs # {}
                      THEN FsErr(e.fs)
                      ELSE FsOk([dirs |-> e.fs.dirs \cup newDirs,
                                 files |-> e.fs.files \cup newFiles])

\* std::fs::rename: the source must exist, the destination's parent must be
\* a directory, the destination must not lie below the source; a directory
\* replaces only an empty directory, a file only a file.
rename(fs, src, dst) ==
    LET srcDir == src \in fs.dirs
        moved(paths) == {IF IsPrefix(src, x) THEN Rebase(x, src, dst) ELSE x : x \in paths}
    IN  IF src \notin fs.dirs \cup fs.files THEN FsErr(fs)
        ELSE IF Parent(dst) \notin fs.dirs THEN FsErr(fs)
        ELSE IF src = dst THEN FsOk(fs)
        ELSE IF IsPrefix(src, dst) THEN FsErr(fs)
        ELSE IF srcDir /\ dst \in fs.files THEN FsErr(fs)
        ELSE IF srcDir /\ Beneath(fs.dirs \cup fs.files, dst) \ {dst} # {} THEN FsErr(fs)
        ELSE IF ~srcDir /\ dst \in fs.dirs THEN FsErr(fs)
        ELSE FsOk([dirs |-> moved(fs.dirs \ {dst}), files |-> moved(fs.files \ {dst})])

\* move_directory is rename and nothing else.
move_directory(fs, src, dst) == rename(fs, src, dst)

NoFsCall == [op |-> "none"]

FsCall(fn, src, target, r) ==
    /\ fsLast.op = "none"
    /\ fsys' = r.fs
    /\ fsLast' = [op |-> fn, src |-> src, target |-> target, ok |-> r.ok, before |-> fsys]
    /\ UNCHANGED <<instVars, fetchVars, unpackVars, dlVars, verVars, stVars, rtVars, hashVars>>

InitFs ==
    /\ StateIdle
    /\ InstallerIdle
    /\ FetchIdle
    /\ verify_checksums = TRUE
    /\ DefaultSignatures
    /\ NoHooksRun
    /\ scope = CommandScope
    /\ UnpackIdle
    /\ DownloadIdle
    /\ VerifyIdle
    /\ RoundTripIdle
    /\ HashIdle
    /\ fsys \in FileSystems
    /\ fsLast = NoFsCall

EnsureDirectory == \E t \in FsPaths : FsCall("ensure_directory", <<>>, t, ensure_directory(fsys, t))

WriteFile == \E t \in FsPaths : FsCall("write_file", <<>>, t, write_file(fsys, t))

\* The source and the destination are apart: neither lies below the other.
CopyDirectory ==
    \E src, dst \in FsPaths :
        /\ ~IsPrefix(src, dst) /\ ~IsPrefix(dst, src)
        /\ FsCall("copy_directory", src, dst, copy_directory(fsys, src, dst))

MoveDirectory ==
    \E src, dst \in FsPaths : FsCall("move_directory", src, dst, move_directory(fsys, src, dst))

NextFs ==
    \/ EnsureDirectory
    \/ WriteFile
    \/ CopyDirectory
    \/ MoveDirectory

SpecFs == InitFs /\ [][NextFs]_vars

\* The call was given a target whose parent directory did not exist, and
\* nothing else stood in its way: no file on the way to the target, and for
\* a copy or a move a source that is a directory.
ParentWasMissing ==
    /\ fsLast.op # "none"
    /\ Parent(fsLast.target) \notin fsLast.before.dirs
    /\ Prefixes(fsLast.target) \cap fsLast.before.files = {}
    /\ fsLast.op \in {"copy_directory", "move_directory"} => fsLast.src \in fsLast.before.dirs

\* C37: a filesystem operation (ensure_directory, copy_directory,
\* move_directory, write_file) given a target whose parent directory does not
\* exist creates that parent and succeeds.
C37_ParentsCreated ==
    ParentWasMissing => fsLast.ok /\ Parent(fsLast.target) \in fsys.dirs

(***************************************************************************)
(* Downloader::download, one call followed through its attempts and the    *)
(* bytes of its destination file.                                          *)
(***************************************************************************)
MaxChunks == 2

\* What the response stream yields at once.
Chunks == {<<"x">>, <<"y", "x">>}

\* The destination before the call: missing, empty, or left by someone else.
DestinationFiles ==
    {[exists |-> FALSE, bytes |-> <<>>],
     [exists |-> TRUE, bytes |-> <<>>],
     [exists |-> TRUE, bytes |-> <<"o">>]}

\* Variant: the destination is opened for appending.
OpenAppend(bytes) == bytes

\* lib.rs 91: File::create truncates the file it opens.
FileCreate(bytes) == <<>>

\* The proper prefixes of a chunk: what write_all may have written when it
\* returns an error.
WrittenBeforeError(c) == {SubSeq(c, 1, k) : k \in 0..(Len(c) - 1)}

InitFetch ==
    /\ StateIdle
    /\ InstallerIdle
    /\ FsIdle
    /\ verify_checksums = TRUE
    /\ DefaultSignatures
    /\ NoHooksRun
    /\ scope = CommandScope
    /\ UnpackIdle
    /\ DownloadIdle
    /\ VerifyIdle
    /\ RoundTripIdle
    /\ HashIdle
    /\ \E m \in 0..MaxAttempts :
          dl = [pc |-> "loop", max_attempts |-> m, attempts |-> 0, downloaded |-> 0,
                received |-> <<>>, chunks |-> 0, stale |-> FALSE,
                result |-> "none", size |-> 0]
    /\ dlFile \in DestinationFiles

FetchUnchanged ==
    UNCHANGED <<instVars, fsVars, unpackVars, dlVars, verVars, stVars, rtVars, hashVars>>

\* lib.rs 51-53, 70-82: the loop counts the attempt and download_internal sends
\* the request; a failed send or a non-success status is an error before the
\* file is touched.
SendRequest ==
    /\ dl.pc = "loop"
    /\ \E ok \in BOOLEAN :
          dl' = [dl EXCEPT !.attempts = @ + 1,
                           !.pc = IF ok THEN "create" ELSE "failed"]
    /\ UNCHANGED dlFile
    /\ FetchUnchanged

\* lib.rs 84-92: downloaded starts at 0, the parent is created, the file is
\* created; either may fail, and then the file is as it was.
CreateFile ==
    /\ dl.pc = "create"
    /\ \/ /\ dl' = [dl EXCEPT !.pc = "stream", !.downloaded = 0,
                              !.received = <<>>, !.chunks = 0]
          /\ dlFile' = [exists |-> TRUE, bytes |-> FileCreate(dlFile.bytes)]
       \/ /\ dl' = [dl EXCEPT !.pc = "failed", !.downloaded = 0]
          /\ UNCHANGED dlFile
    /\ FetchUnchanged

\* lib.rs 94-100: the stream yields a chunk, it is written and counted.
WriteChunk ==
    /\ dl.pc = "stream"
    /\ dl.chunks < MaxChunks
    /\ \E c \in Chunks :
          /\ dl' = [dl EXCEPT !.downloaded = @ + Len(c), !.received = @ \o c,
                              !.chunks = @ + 1]
          /\ dlFile' = [dlFile EXCEPT !.bytes = @ \o c]
    /\ FetchUnchanged

\* lib.rs 95-99: the stream yields an error, or write_all fails with part of
\* the chunk written.
ChunkFails ==
    /\ dl.pc = "stream"
    /\ \/ UNCHANGED dlFile
       \/ /\ dl.chunks < MaxChunks
          /\ \E c \in Chunks : \E w \in WrittenBeforeError(c) :
                dlFile' = [dlFile EXCEPT !.bytes = @ \o w]
    /\ dl' = [dl EXCEPT !.pc = "failed"]
    /\ FetchUnchanged

\* lib.rs 94, 107-114: the stream ends, the file is flushed, the result
\* carries downloaded as its size.
StreamEnds ==
    /\ dl.pc = "stream"
    /\ dl' = [dl EXCEPT !.pc = "done", !.result = "Ok", !.size = dl.downloaded]
    /\ UNCHANGED dlFile
    /\ FetchUnchanged

\* lib.rs 55-58: an error with attempts left: sleep and go round again.
RetryAfterError ==
    /\ dl.pc = "failed"
    /\ ShouldRetry(dl.attempts, dl.max_attempts)
    /\ dl' = [dl EXCEPT !.pc = "loop",
                        !.stale = @ \/ (dlFile.exists /\ dlFile.bytes # <<>>)]
    /\ UNCHANGED dlFile
    /\ FetchUnchanged

\* lib.rs 59: an error with no attempt left is returned.
GiveUp ==
    /\ dl.pc = "failed"
    /\ ~ShouldRetry(dl.attempts, dl.max_attempts)
    /\ dl' = [dl EXCEPT !.pc = "done", !.result = "Err"]
    /\ UNCHANGED dlFile
    /\ FetchUnchanged

NextFetch ==
    \/ SendRequest
    \/ CreateFile
    \/ WriteChunk
    \/ ChunkFails
    \/ StreamEnds
    \/ RetryAfterError
    \/ GiveUp

SpecFetch == InitFetch /\ [][NextFetch]_vars

\* C39: when download returns Ok, after any number of failed attempts, the
\* destination file holds exactly the bytes received in the final attempt,
\* nothing of an earlier attempt or of an earlier file, and the returned size
\* is the number of bytes in the file.
C39_FileIsFinalAttempt ==
    dl.result = "Ok" =>
        /\ dlFile.exists
        /\ dlFile.bytes = dl.received
        /\ dl.size = Len(dlFile.bytes)

\* A download that succeeded after an attempt that had left bytes in the file.
C39_Witness ==
    /\ dl.result = "Ok"
    /\ dl.attempts >= 2
    /\ dl.stale
    /\ dl.received # <<>>

====
